---------------------------- MODULE Spec2Model ----------------------------
(***************************************************************************)
(* State-machine model of the flipper-rpc client session: the command      *)
(* index of SerialRpcTransport, Transport::send / send_and_receive, and    *)
(* the chunk engines fs_write, fs_read and fs_read_dir (Spec); the framing *)
(* of messages on the byte channel, send_raw and the two receive_raw       *)
(* strategies (SpecFraming); the handshake of SerialRpcTransport::new      *)
(* (SpecHandshake), next to SerialCliTransport::new with into_rpc and      *)
(* from_port (SpecConstructors); into_result and varint_length applied on  *)
(* their own (SpecFunctions); fs_write and fs_read against a device that   *)
(* stores the file (SpecStore); the command index near u32::MAX            *)
(* (SpecWrap); fs_create_dir (SpecCreateDir); send_and_receive with the    *)
(* responses followed on the line (SpecLine); fs_read and fs_read_dir      *)
(* under fairness of their blocking steps (SpecReadLive).                  *)
(*                                                                         *)
(* One session executes one call at a time (single-threaded, blocking).    *)
(* Every send_raw and every receive_raw is a step of its own; the device   *)
(* and the byte channel are the environment, which decides the outcome of  *)
(* each of them.  A slice of the caller's data is the pair (offset,        *)
(* length) into that data, as &data[off .. off+len] is in the source.      *)
(***************************************************************************)
EXTENDS Integers, Sequences, FiniteSets, TLC

VARIABLES
    command_index,   \* SerialRpcTransport.command_index (u32)
    pc,              \* position of the running call ("idle": none running)
    call,            \* the call last started
    ret,             \* what the last finished call returned
    nOps,            \* calls started on this session
    featReadMetadata,\* build feature "fs-read-metadata"
    data_len,        \* fs_write: data.len()
    chunks,          \* fs_write: the chunk iterator
    total_chunks,    \* fs_write: chunks.len() taken before the loop
    command_id,      \* fs_write: the id read at the start of the call
    i,               \* fs_write: enumerate() index of the current chunk
    chunk,           \* fs_write: the current chunk (a slice of data)
    tx,              \* fs_write: the progress sink (feature fs-write-progress-mpsc)
                     \* and what its receiver has been sent
    sent,            \* fs_write: bytes reported as sent so far
    req,             \* send_and_receive: the request
    buf,             \* fs_read: accumulated bytes; fs_read_dir: accumulated items
    lastSent,        \* history: the frame the running call wrote last (send_raw)
    g_sent,          \* history: some frame was sent on this session
    g_idx0,          \* history: command_index when the call started
    g_sends,         \* history: frames sent by the running call
    g_writes,        \* history: storage-write requests sent by the call
    g_pings,         \* history: keepalive pings sent by the call
    g_reads,         \* history: read / list requests sent by the call
    g_covered,       \* history: sum of the lengths of the chunks sent
    g_sincePing,     \* history: write chunks sent since the last ping (or start)
    g_rx,            \* history: payloads of the frames received in the drain loop
    g_rxLast,        \* history: has_next of the frame received last in the loop
    g_recvSinceSend, \* history: receives completed since the last send
    g_gap,           \* history: receives completed between the last two sends
    g_errFree,       \* history: no call of the session has returned Err
    g_fail,          \* history: the error the channel or device raised in the call
    g_standalone,    \* history: calls of Transport::send so far, while the session
                     \* has issued standalone requests only (-1 afterwards)
    strategy,        \* receive_raw as built: "two_stage" (feature
                     \* transport-serial-optimized) or "byte_wise"
    featLargeStack,  \* build feature transport-serial-optimized-large-stack-limit
    todo,            \* framing: the messages the peer has still to write
    inflight,        \* framing: bytes written to the line, not yet at the port
    queued,          \* framing: bytes in the input queue of the port
    rx_pc,           \* receive_raw: position
    rx_buf,          \* receive_raw: buf[..read] (byte-wise: buf[..index])
    available_bytes, \* receive_raw (two-stage): available_bytes
    rx_ret,          \* receive_raw: what the last call returned
    g_partials,      \* history: arrivals of a part of the bytes on the line
    g_readOps,       \* history: read operations of the running receive_raw
    g_stream0,       \* history: the unread bytes when receive_raw was called
    g_allQueued,     \* history: all of them were in the input queue then
    g_fault,         \* history: the port raised an I/O error in this receive_raw
    g_loopEnd,       \* history: how the first-stage loop ended
    g_recvs,         \* history: calls of receive_raw
    h_pc,            \* new: position
    h_line,          \* new: the bytes the device has emitted and new has not
                     \* read, in the bursts they come in
    g_read,          \* history: the bytes new has read
    h_buf,           \* drain_until_str: buf
    h_filled,        \* drain_until_str: filled
    h_expired,       \* the deadline of the running drain has passed
    h_written,       \* new: the bytes written to the port
    h_ret,           \* new: what it returned
    h_session,       \* the session new returned, if any
    g_steps,         \* history: the steps of new completed so far
    f_pc,            \* a function applied on its own: position
    f_fn,            \* which function
    f_status,        \* into_result: self
    f_value,         \* into_result: value
    f_result,        \* into_result: what it returned
    v_in,            \* varint_length: the argument
    v_value,         \* varint_length: value
    v_len,           \* varint_length: len
    d_mode,          \* the device: "any" answers as it likes, "store" keeps
                     \* the file written to it and serves it back
    d_file,          \* the device ("store"): the bytes of the file
    d_pos,           \* the device ("store"): bytes of the file served so far
    read_size,       \* fs_read: size (the declared size; -1: None)
    d_owed,          \* the device: ids of the requests it has read and not
                     \* answered yet
    d_line,          \* ids of the response frames on the line to the host
    g_ans,           \* history: the id of the frame the last receive returned
    g_ids,           \* history: the frames sent on the session, each as the
                     \* number of the call that sent it and its command_id
    h_path,          \* how the session is built: "new" (SerialRpcTransport::new),
                     \* "cli" (SerialCliTransport::new, into_rpc), "from_port"
    g_data           \* history: len of the data whose fs_write returned Ok
                     \* and is the last to have reached the device, or -1

\* the session and the running call, but for the command index
sessionLocals ==
    << pc, call, ret, nOps, featReadMetadata, data_len, chunks, total_chunks,
       command_id, i, chunk, tx, sent, req, buf, lastSent, g_sent, g_idx0,
       g_sends, g_writes, g_pings, g_reads, g_covered, g_sincePing, g_rx,
       g_rxLast, g_recvSinceSend, g_gap, g_errFree, g_fail, g_standalone, read_size,
       g_ids >>

sessionVars == << command_index, sessionLocals >>

portVars == << todo, inflight, queued, g_partials >>

rxVars == << rx_pc, rx_buf, available_bytes, rx_ret >>

rxHist == << g_readOps, g_stream0, g_allQueued, g_fault, g_loopEnd, g_recvs >>

framingVars == << strategy, featLargeStack, portVars, rxVars, rxHist >>

functionVars == << f_pc, f_fn, f_status, f_value, f_result, v_in, v_value, v_len >>

\* the requests and responses under way between the host and the device
replyVars == << d_owed, d_line, g_ans >>

deviceVars == << d_mode, d_file, d_pos, g_data, replyVars >>

\* the file on the device and what is known of it
stored == << d_file, d_pos, g_data >>

handshakeVars ==
    << h_pc, h_line, g_read, h_buf, h_filled, h_expired, h_written, h_ret,
       h_session, g_steps, h_path >>

\* what no step of the framing layer changes: how receive_raw was built, and
\* the layers above it and before it
framingConst ==
    << strategy, featLargeStack, sessionVars, handshakeVars, functionVars, deviceVars >>

\* what no step of the handshake changes (the command index apart)
handshakeFixed == << sessionLocals, framingVars, functionVars, deviceVars, h_path >>

\* what applying a function on its own does not change
functionFixed == << sessionVars, framingVars, handshakeVars, deviceVars >>

vars == << sessionVars, framingVars, handshakeVars, functionVars, deviceVars >>

----------------------------------------------------------------------------
(* Bounds of the model *)

\* calls per session
MaxOps == 2
\* frames in a stream of several frames, and calls of receive_raw
MaxFrames == 2
\* arrivals of only a part of the bytes that are on the line
MaxPartialArrivals == 1
\* small writes: up to this many full chunks (plus a remainder)
MaxSmallChunks == 2
\* large writes: up to this many keepalive periods of full chunks, and a byte
MaxPingPeriods == 3
\* frames the device sends in one read chain
MaxReadFrames == 3

----------------------------------------------------------------------------
(* Program constants *)

\* A u32 is held as its two 16-bit halves [hi, lo]: the value hi * 2^16 + lo
U16 == 65536

CHUNK_SIZE == 512

THROUGHPUT_KIB == 50

CHUNKS_PER_SECOND == (THROUGHPUT_KIB * 1024) \div CHUNK_SIZE

PING_INTERVAL_SECONDS == 5

CHUNKS_PER_PING == PING_INTERVAL_SECONDS * CHUNKS_PER_SECOND

\* fs_write closes its chain with increment_command_index(2)
WRITE_CLOSE_INCREMENT == 2

----------------------------------------------------------------------------
(* Frames *)

\* the u32 of a natural number below 2^31
U32Of(n) == [hi |-> (n \div U16) % U16, lo |-> n % U16]

\* u32 addition of a small natural number, wrapping at 2^32
U32Add(x, n) ==
    [hi |-> (x.hi + ((x.lo + n) \div U16)) % U16, lo |-> (x.lo + n) % U16]

\* u32::MAX
U32Max == [hi |-> U16 - 1, lo |-> U16 - 1]

\* u32 addition, wrapping at 2^32
U32Plus(x, y) ==
    [hi |-> (x.hi + y.hi + ((x.lo + y.lo) \div U16)) % U16, lo |-> (x.lo + y.lo) % U16]

\* the sum of two u32 does not fit a u32
Overflows(x, y) == x.hi + y.hi + ((x.lo + y.lo) \div U16) >= U16

\* what `x + y` and `x += y` on u32 do: a sum that does not fit panics in a
\* build with overflow checks (the dev profile) and wraps in one without
\* (the release profile)
AddOutcomes(x, y) == IF Overflows(x, y) THEN {"wrap", "panic"} ELSE {"fits"}

NoSlice == [off |-> 0, len |-> 0]

\* the data handed to fs_write: byte idx is (idx / 512) as u8
ExampleData(len) == [k \in 1..len |-> ((k - 1) \div 512) % 256]

\* the bytes of a slice of the data
SliceBytes(slice) == [k \in 1..slice.len |-> ((slice.off + k - 1) \div 512) % 256]

\* proto::Main as far as the session looks at it
Frame(id, hn, kind, data, size) ==
    [command_id |-> id, has_next |-> hn, kind |-> kind, data |-> data, size |-> size]

NoFrame == Frame(U32Of(0), FALSE, "none", NoSlice, 0)

\* Request::into_rpc: the given id, status Ok, has_next false
into_rpc(kind, data, size, id) == Frame(id, FALSE, kind, data, size)

with_has_next(frame, hn) == [frame EXCEPT !.has_next = hn]

----------------------------------------------------------------------------
(* CommandIndex *)

\* mutant: the index always advances by one
increment_command_index_byOne(idx, by) == U32Add(idx, 1)

\* self.command_index += by, when the sum fits or the build wraps
increment_command_index(idx, by) == U32Plus(idx, by)

----------------------------------------------------------------------------
(* The chunk iterator of fs_write *)

\* mutant: no special case for empty data
chunks_or_empty_plain(len, chunk_size) ==
    [once |-> FALSE, off |-> 0, rem |-> len, chunk_size |-> chunk_size, taken |-> FALSE]

\* chunks_or_empty: iter::once(&[]) for empty data, data.chunks(chunk_size)
\* otherwise.  The iterator is the not yet consumed rest of the data.
chunks_or_empty(len, chunk_size) ==
    IF len = 0
    THEN [once |-> TRUE,  off |-> 0, rem |-> 0,   chunk_size |-> chunk_size, taken |-> FALSE]
    ELSE [once |-> FALSE, off |-> 0, rem |-> len, chunk_size |-> chunk_size, taken |-> FALSE]

\* ExactSizeIterator::len of the iterator
IterLen(it) ==
    IF it.once
    THEN (IF it.taken THEN 0 ELSE 1)
    ELSE IF it.rem = 0
         THEN 0
         ELSE (it.rem \div it.chunk_size)
              + (IF it.rem % it.chunk_size > 0 THEN 1 ELSE 0)

\* Iterator::next: whether there is an item, the item, the iterator afterwards
IterHasNext(it) == IF it.once THEN ~it.taken ELSE it.rem > 0

IterItem(it) ==
    IF it.once
    THEN [off |-> 0, len |-> 0]
    ELSE [off |-> it.off,
          len |-> IF it.rem < it.chunk_size THEN it.rem ELSE it.chunk_size]

IterAdvance(it) ==
    IF it.once
    THEN [it EXCEPT !.taken = TRUE]
    ELSE [it EXCEPT !.off = it.off + IterItem(it).len,
                    !.rem = it.rem - IterItem(it).len]

NoIter == chunks_or_empty(0, CHUNK_SIZE)

\* fs_write: is a keepalive ping sent before chunk idx
PingDue(idx) == idx > CHUNKS_PER_PING /\ idx % CHUNKS_PER_PING = 0

\* mutant: the last chunk is not recognised
HasNext_offByOne(idx, total) == idx # total

\* fs_write: the has_next flag of chunk idx
HasNext(idx, total) == idx # total - 1

\* mutant: the keepalive ping carries the id of the write chain
PingId_same(cid) == cid

\* fs_write: the id of the keepalive ping
PingId(cid) == U32Add(cid, 1)

----------------------------------------------------------------------------
(* The progress sink of fs_write: Option<Sender<(usize, usize)>> *)

\* the tx argument: no sink (or the feature is off), a sender whose receiver
\* is alive, a sender whose receiver was dropped
Sinks == {"None", "Connected", "Disconnected"}

\* a sink together with what was delivered to its receiver: the number of
\* reports, the last report, whether the counts never decreased, and whether
\* a delivery has failed
NewSink(conn) ==
    [conn |-> conn, n |-> 0, last |-> <<0, 0>>, mono |-> TRUE, failed |-> FALSE]

NoSink == NewSink("None")

\* Sender::send: Ok when the receiver is alive, Err(SendError) when not
SinkSend(s, report) ==
    IF s.conn = "Connected"
    THEN [s EXCEPT !.n = @ + 1, !.last = report,
                   !.mono = s.mono /\ (s.n = 0 \/ report[1] >= s.last[1])]
    ELSE [s EXCEPT !.failed = TRUE]

\* mutant: the count reported is the length of the chunk just sent
AddSent_chunkOnly(s, n) == n

\* sent += chunk.len()
AddSent(s, n) == s + n

----------------------------------------------------------------------------
(* Inputs and environment *)

SmallLens ==
    { k * CHUNK_SIZE + r : k \in 0..MaxSmallChunks, r \in {0, 1} }

LargeLens ==
    { m * CHUNKS_PER_PING * CHUNK_SIZE + 1 : m \in 1..MaxPingPeriods }

\* what a path argument can be
Paths == {"file", "not_utf8", "no_file_name"}

\* outcomes of send_raw: written and flushed, or an I/O error
SendOutcomes == {"Ok", "Io"}

\* errors of receive_raw: I/O (timeouts and "no data" included), decode,
\* and a non-Ok command status turned into an Rpc error by into_result
RecvErrors == {"Io", "ProtoDecode", "Rpc"}

\* payloads a storage-read response frame can carry
Payloads == { <<>>, <<7>>, <<8, 9>> }

\* directory entries a storage-list response frame can carry
ItemChunks == { <<>>, <<101>>, <<102, 103>> }

\* what a call returns
NoRet == [status |-> "none", err |-> "", val |-> <<>>]

RetOk(v) == [status |-> "Ok", err |-> "", val |-> v]

RetErr(e) == [status |-> "Err", err |-> e, val |-> <<>>]

----------------------------------------------------------------------------
(* Framing: a varint length prefix, then the encoded message *)

Min(a, b) == IF a < b THEN a ELSE b

Take(s, n) == SubSeq(s, 1, n)

Drop(s, n) == SubSeq(s, n + 1, Len(s))

\* the byte-wise reader's buffer for the length prefix, and the most bytes
\* a varint has
VARINT_MAX == 10

\* STACK_LIMIT of the two-stage receive_raw, by build feature
\* transport-serial-optimized-large-stack-limit
STACK_LIMIT(largeStack) == IF largeStack THEN 10 + 512 ELSE 10 + 128

\* prost::encode_length_delimiter: little-endian base 128, the high bit set
\* on every byte but the last
RECURSIVE encode_varint(_)
encode_varint(n) ==
    IF n < 128 THEN << n >> ELSE << 128 + (n % 128) >> \o encode_varint(n \div 128)

\* mutant: the length prefix is taken to be one byte long
length_delimiter_len_one(n) == 1

\* mutant: every length prefix is taken to have the greatest length
length_delimiter_len_max(n) == VARINT_MAX

\* prost::length_delimiter_len: the bytes the prefix of length n takes
length_delimiter_len(n) == Len(encode_varint(n))

RECURSIVE DecodeVarint(_, _, _, _)
DecodeVarint(bytes, k, acc, mult) ==
    IF k > Len(bytes) \/ k > VARINT_MAX
    THEN [ok |-> FALSE, value |-> 0, used |-> k - 1]
    ELSE IF bytes[k] < 128
         THEN [ok |-> TRUE, value |-> acc + bytes[k] * mult, used |-> k]
         ELSE DecodeVarint(bytes, k + 1, acc + (bytes[k] - 128) * mult, mult * 128)

\* prost::decode_length_delimiter: the length at the head of bytes; it fails
\* when the bytes end before the last byte of the varint
decode_length_delimiter(bytes) == DecodeVarint(bytes, 1, 0, 1)

\* a message: the length of its encoding and its command status ("Ok",
\* "Error", or "Unrecognized": a value that no CommandStatus has)
Message(len, status) == [len |-> len, status |-> status]

\* Message::encode: the bytes of a message.  command_status is field 2 of
\* proto::Main (tag 16); a message with status Ok does not carry the field.
encode(msg) ==
    [k \in 1..msg.len |->
        IF msg.status = "Ok" THEN 32 + ((k + msg.len) % 64)
        ELSE IF k = 1 THEN 16
        ELSE IF k = 2 THEN (IF msg.status = "Error" THEN 1 ELSE 100)
        ELSE 32 + ((k + msg.len) % 64)]

\* Message::encode_length_delimited_to_vec
encode_length_delimited(msg) == encode_varint(msg.len) \o encode(msg)

\* the encoding lengths tried for a frame that travels alone
FrameLens == {0, 1, 127, 128, 137, 138, 139, 10000}

\* the messages tried for a frame that travels alone
LoneMessages ==
    { Message(len, "Ok") : len \in FrameLens } \cup
    { Message(len, "Error") : len \in {2, 139} } \cup
    { Message(2, "Unrecognized") }

\* the messages of a stream of several frames
ChainMessages == { Message(1, "Ok"), Message(3, "Ok"), Message(137, "Ok") }

AllMessages == LoneMessages \cup ChainMessages

\* the frames the peer writes, in order
Streams ==
    { << m >> : m \in LoneMessages } \cup
    UNION { [1..n -> ChainMessages] : n \in 2..MaxFrames }

\* the command status of decoded bytes
StatusOf(bytes) ==
    IF Len(bytes) >= 2 /\ bytes[1] = 16 /\ bytes[2] # 0
    THEN (IF bytes[2] = 1 THEN "Error" ELSE "Unrecognized")
    ELSE "Ok"

\* the call did not return: a panic unwinds out of it
Panicked(what) == [status |-> "Panic", err |-> what, val |-> << >>]

\* CommandStatus::try_from(main.command_status).unwrap(): what it ends the
\* call with, if it does
try_from_unwrap(status) ==
    IF status = "Unrecognized" THEN Panicked("unwrap") ELSE NoRet

\* bytes that are the encoding of a message
IsEncoding(bytes) == \E m \in AllMessages : m.len = Len(bytes) /\ encode(m) = bytes

\* proto::Main::decode, then CommandStatus::into_result: the results the
\* bytes can give.  Bytes that are the encoding of a message give the message
\* (or the Rpc error of its status); what other bytes give depends on their
\* content: a decode error, or some other message.
DecodeResults(bytes) ==
    IF IsEncoding(bytes)
    THEN { IF try_from_unwrap(StatusOf(bytes)) # NoRet
           THEN try_from_unwrap(StatusOf(bytes))
           ELSE IF StatusOf(bytes) = "Ok" THEN RetOk(bytes) ELSE RetErr("Rpc") }
    ELSE { RetErr("ProtoDecode"), RetErr("Rpc"), RetOk(bytes),
           try_from_unwrap("Unrecognized") }

\* how the first-stage loop of the two-stage receive_raw can end
LoopEnds == {"none", "cond", "zero", "timeout", "error"}

\* mutant: reading nothing is not looked at
NoDataRead_never(read) == FALSE

\* if read == 0: "no data read, failed to parse varint"
NoDataRead(read) == read = 0

\* what the byte-wise receive_raw gives for a stream that is entirely in the
\* input queue: the result, and the bytes left unread
ByteWiseOutcome(stream) ==
    LET d == decode_length_delimiter(Take(stream, Min(Len(stream), VARINT_MAX)))
    IN  IF ~d.ok
        THEN [ret |-> {RetErr(IF Len(stream) < VARINT_MAX THEN "Io" ELSE "ProtoDecode")},
              rest |-> Drop(stream, Min(Len(stream), VARINT_MAX))]
        ELSE IF Len(stream) - d.used < d.value
             THEN [ret |-> {RetErr("Io")}, rest |-> << >>]
             ELSE [ret |-> DecodeResults(SubSeq(stream, d.used + 1, d.used + d.value)),
                   rest |-> Drop(stream, d.used + d.value)]

----------------------------------------------------------------------------
(* The handshake of SerialRpcTransport::new: bytes and buffers *)

\* drain_until_str and drain_until read in chunks of this many bytes
DRAIN_CHUNK_SIZE == 256

\* drain_until_str juggles two chunks in its buffer
BUF_LEN == DRAIN_CHUNK_SIZE * 2

\* ">: "
PROMPT == << 62, 58, 32 >>

\* b'\n'
NEWLINE == 10

\* "start_rpc_session\r"
START_RPC_SESSION ==
    << 115, 116, 97, 114, 116, 95, 114, 112, 99, 95, 115, 101, 115, 115, 105,
       111, 110, 13 >>

\* n banner bytes that belong to no marker ('x')
Fill(n) == [k \in 1..n |-> 120]

\* memmem::Finder::find(..).is_some()
Find(haystack, needle) ==
    \E k \in 1..(Len(haystack) - Len(needle) + 1) :
        \A j \in 1..Len(needle) : haystack[k + j - 1] = needle[j]

\* the bursts without the empty ones
Bursts(bs) == SelectSeq(bs, LAMBDA b : Len(b) > 0)

\* the lengths of the banner before the prompt
BannerLens == {0, 1, DRAIN_CHUNK_SIZE - 2, DRAIN_CHUNK_SIZE - 1, DRAIN_CHUNK_SIZE}

\* what the device emits in text mode before it waits for a command, in the
\* bursts the bytes come in: a banner and the prompt, split after the first
\* byte of the banner or not and at any place of the prompt; nothing; a
\* banner without prompt; a banner with the bytes of the prompt apart from
\* one another
TextStreams ==
    { Bursts(<< Fill(h), Fill(n - h) \o Take(PROMPT, j), Drop(PROMPT, j) >>) :
        n \in BannerLens, j \in 0..(Len(PROMPT) - 1), h \in {0, 1} } \cup
    { << >>, << Fill(3) >>, << << 62, 58 >> >>,
      << Fill(DRAIN_CHUNK_SIZE),
         Fill(1) \o << 58, 32 >> \o Fill(DRAIN_CHUNK_SIZE - 3),
         << 62 >> >> }

\* what the device emits after the mode-switch command: the echo and a line
\* end, a line end, bytes without a newline, nothing
Replies ==
    { START_RPC_SESSION \o << 10 >>, << 13, 10 >>, << 13 >>, << >> }

\* the buffer of drain_until_str
NewBuf == [k \in 1..BUF_LEN |-> 0]

\* buf.copy_within(CHUNK_SIZE.., 0)
CopyWithin(b) ==
    [k \in 1..BUF_LEN |-> IF k <= BUF_LEN - DRAIN_CHUNK_SIZE THEN b[k + DRAIN_CHUNK_SIZE] ELSE b[k]]

\* reader.read(&mut buf[filled..]) returning data
ReadInto(b, filled, data) ==
    [k \in 1..BUF_LEN |->
        IF k > filled /\ k <= filled + Len(data) THEN data[k - filled] ELSE b[k]]

NoSession == [open |-> FALSE]

RpcSession == [open |-> TRUE]

\* the steps of SerialRpcTransport::new
HandshakeSteps == << "prompt", "write", "flush", "newline", "index" >>

----------------------------------------------------------------------------
(* CommandStatus::into_result and varint_length *)

\* a CommandStatus variant: the family its name carries after "Error" (none
\* for the command family) and the rest of the name; Ok apart
Status(family, name) == << family, name >>

StatusOk == Status("Ok", "")

\* the variants of proto::CommandStatus that into_result matches
CommandStatuses ==
    { StatusOk } \cup
    { Status("", n) : n \in {"", "Decode", "NotImplemented", "Busy",
                             "ContinuousCommandInterrupted", "InvalidParameters"} } \cup
    { Status("Storage", n) : n \in {"NotReady", "Exist", "NotExist",
                                    "InvalidParameter", "Denied", "InvalidName",
                                    "Internal", "NotImplemented", "AlreadyOpen",
                                    "DirNotEmpty"} } \cup
    { Status("App", n) : n \in {"CantStart", "SystemLocked", "NotRunning", "CmdError"} } \cup
    { Status("VirtualDisplay", n) : n \in {"AlreadyStarted", "NotStarted"} } \cup
    { Status("Gpio", n) : n \in {"ModeIncorrect", "UnknownPinMode"} }

\* rpc::error::Error: the variant (category) and the reason inside it
RpcError(category, reason) == << category, reason >>

\* the values into_result is tried with
ResultValues == { << >>, << 1 >>, << 1, 2 >> }

\* the match of into_result, the arms in the order of the source
StatusError(self) ==
    CASE self = Status("", "") -> RpcError("CommandError", "Unknown")
      [] self = Status("", "Decode") -> RpcError("CommandError", "Decode")
      [] self = Status("", "NotImplemented") -> RpcError("CommandError", "NotImplemented")
      [] self = Status("", "Busy") -> RpcError("CommandError", "Busy")
      [] self = Status("", "ContinuousCommandInterrupted") ->
            RpcError("CommandError", "ContinuousCommandInterrupted")
      [] self = Status("", "InvalidParameters") -> RpcError("CommandError", "InvalidParameters")
      [] self = Status("Storage", "NotReady") -> RpcError("StorageError", "NotReady")
      [] self = Status("Storage", "Exist") -> RpcError("StorageError", "AlreadyExists")
      [] self = Status("Storage", "NotExist") -> RpcError("StorageError", "NotFound")
      [] self = Status("Storage", "InvalidParameter") ->
            RpcError("StorageError", "InvalidParameter")
      [] self = Status("Storage", "Denied") -> RpcError("StorageError", "PermissionDenied")
      [] self = Status("Storage", "InvalidName") -> RpcError("StorageError", "InvalidName")
      [] self = Status("Storage", "Internal") -> RpcError("StorageError", "Internal")
      [] self = Status("Storage", "NotImplemented") -> RpcError("StorageError", "NotImplemented")
      [] self = Status("Storage", "AlreadyOpen") -> RpcError("StorageError", "AlreadyOpen")
      [] self = Status("Storage", "DirNotEmpty") -> RpcError("StorageError", "DirectoryNotEmpty")
      [] self = Status("App", "CantStart") -> RpcError("ApplicationError", "CannotStart")
      [] self = Status("App", "SystemLocked") -> RpcError("ApplicationError", "SystemLocked")
      [] self = Status("App", "NotRunning") -> RpcError("ApplicationError", "RpcUnavailable")
      [] self = Status("App", "CmdError") -> RpcError("ApplicationError", "CommandExecution")
      [] self = Status("VirtualDisplay", "AlreadyStarted") ->
            RpcError("VirtualDisplayError", "AlreadyStarted")
      [] self = Status("VirtualDisplay", "NotStarted") ->
            RpcError("VirtualDisplayError", "NotStarted")
      [] self = Status("Gpio", "ModeIncorrect") -> RpcError("GPIOError", "IncorrectMode")
      [] self = Status("Gpio", "UnknownPinMode") -> RpcError("GPIOError", "UnknownMode")

\* mutant: a directory or file that exists already is no failure
into_result_existOk(self, value) ==
    IF self = StatusOk \/ self = Status("Storage", "Exist")
    THEN RetOk(value)
    ELSE RetErr(StatusError(self))

\* mutant: the storage "not implemented" code takes the arm of the command one
into_result_notImplemented(self, value) ==
    IF self = StatusOk
    THEN RetOk(value)
    ELSE IF self = Status("Storage", "NotImplemented")
         THEN RetErr(RpcError("CommandError", "NotImplemented"))
         ELSE RetErr(StatusError(self))

\* CommandStatus::into_result(self, value)
into_result(self, value) ==
    IF self = StatusOk THEN RetOk(value) ELSE RetErr(StatusError(self))

\* A usize (64 bits) is held as its four 16-bit limbs, the lowest first
U64(l0, l1, l2, l3) == << l0, l1, l2, l3 >>

\* 2^k as a usize, k in 0..63
RECURSIVE Pow2Small(_)
Pow2Small(k) == IF k = 0 THEN 1 ELSE 2 * Pow2Small(k - 1)

Pow2(k) == [j \in 1..4 |-> IF j = (k \div 16) + 1 THEN Pow2Small(k % 16) ELSE 0]

\* 2^k - 1 as a usize, k in 0..64
Pow2Less1(k) ==
    [j \in 1..4 |->
        IF j < (k \div 16) + 1 THEN U16 - 1
        ELSE IF j = (k \div 16) + 1 THEN Pow2Small(k % 16) - 1
        ELSE 0]

\* a < b on usize
RECURSIVE LtFrom(_, _, _)
LtFrom(a, b, j) ==
    IF j = 0 THEN FALSE
    ELSE IF a[j] # b[j] THEN a[j] < b[j]
    ELSE LtFrom(a, b, j - 1)

Lt(a, b) == LtFrom(a, b, 4)

\* value >> 7
Shr7(value) ==
    [j \in 1..4 |->
        (value[j] \div 128) + (IF j < 4 THEN (value[j + 1] % 128) * (U16 \div 128) ELSE 0)]

\* mutant: the loop goes on above 0x80 only
LoopGoesOn_above(value) == Lt(Pow2(7), value)

\* while value >= 0x80
LoopGoesOn(value) == ~Lt(value, Pow2(7))

\* the values varint_length is tried with: 0, 1, each 2^(7n) - 1 and 2^(7n),
\* the value of the repository's test below 2^63, usize::MAX - 1, usize::MAX
VarintInputs ==
    { Pow2Less1(0), Pow2(0), U64(0, 0, 0, 3276), U64(U16 - 2, U16 - 1, U16 - 1, U16 - 1),
      Pow2Less1(64) } \cup
    { Pow2Less1(7 * n) : n \in 1..9 } \cup
    { Pow2(7 * n) : n \in 1..9 }

\* no function is being applied
\* nothing is under way between the host and the device
NoReplies ==
    /\ d_owed = << >>
    /\ d_line = << >>
    /\ g_ans = << >>

\* a device that answers as it likes
DeviceAny ==
    /\ d_mode = "any"
    /\ d_file = << >>
    /\ d_pos = 0
    /\ g_data = -1
    /\ NoReplies

FunctionsIdle ==
    /\ f_pc = "idle"
    /\ f_fn = "none"
    /\ f_status = StatusOk
    /\ f_value = << >>
    /\ f_result = NoRet
    /\ v_in = Pow2Less1(0)
    /\ v_value = Pow2Less1(0)
    /\ v_len = 0

----------------------------------------------------------------------------
(* The byte channel, send_raw and the two receive_raw strategies *)

\* the framing layer at rest
FramingIdle ==
    /\ strategy = "two_stage"
    /\ featLargeStack = FALSE
    /\ todo = << >>
    /\ inflight = << >>
    /\ queued = << >>
    /\ g_partials = 0
    /\ rx_pc = "idle"
    /\ rx_buf = << >>
    /\ available_bytes = 0
    /\ rx_ret = NoRet
    /\ g_readOps = 0
    /\ g_stream0 = << >>
    /\ g_allQueued = FALSE
    /\ g_fault = FALSE
    /\ g_loopEnd = "none"
    /\ g_recvs = 0

----------------------------------------------------------------------------
(* SerialRpcTransport::new *)

\* the port is open and new has not run yet; the device has its text to emit
HandshakeStart ==
    /\ h_pc = "h_prompt"
    /\ h_line \in TextStreams
    /\ g_read = << >>
    /\ h_buf = NewBuf
    /\ h_filled = 0
    /\ h_expired = FALSE
    /\ h_written = << >>
    /\ h_ret = NoRet
    /\ h_session = NoSession
    /\ g_steps = << >>
    /\ h_path = "new"

\* new has returned the session
HandshakeDone ==
    /\ h_pc = "h_done"
    /\ h_line = << >>
    /\ g_read = << >>
    /\ h_buf = << >>
    /\ h_filled = 0
    /\ h_expired = FALSE
    /\ h_written = START_RPC_SESSION
    /\ h_ret = RetOk(<< >>)
    /\ h_session = RpcSession
    /\ g_steps = HandshakeSteps
    /\ h_path = "new"

----------------------------------------------------------------------------
(* Initial state: SerialRpcTransport::new / from_port *)

\* a session on which nothing was called yet
SessionNew ==
    /\ command_index = U32Of(0)
    /\ pc = "idle"
    /\ call = "none"
    /\ ret = NoRet
    /\ nOps = 0
    /\ data_len = 0
    /\ chunks = NoIter
    /\ total_chunks = 0
    /\ command_id = U32Of(0)
    /\ i = 0
    /\ chunk = NoSlice
    /\ tx = NoSink
    /\ sent = 0
    /\ req = "none"
    /\ buf = <<>>
    /\ lastSent = NoFrame
    /\ g_sent = FALSE
    /\ g_idx0 = U32Of(0)
    /\ g_sends = 0
    /\ g_writes = 0
    /\ g_pings = 0
    /\ g_reads = 0
    /\ g_covered = 0
    /\ g_sincePing = 0
    /\ g_rx = <<>>
    /\ g_rxLast = FALSE
    /\ g_recvSinceSend = 0
    /\ g_gap = -1
    /\ g_errFree = TRUE
    /\ g_fail = ""
    /\ g_standalone = 0
    /\ read_size = -1
    /\ g_ids = {}

Init ==
    /\ SessionNew
    /\ featReadMetadata \in BOOLEAN
    /\ FramingIdle
    /\ HandshakeDone
    /\ FunctionsIdle
    /\ DeviceAny

----------------------------------------------------------------------------
(* The raw transport: one frame out, one frame in *)

chanVars == << lastSent, g_ids, g_sent, g_sends, g_writes, g_pings, g_reads, g_covered,
              g_sincePing, g_gap, g_recvSinceSend, g_fail >>

\* TransportRaw::send_raw: encode, write_all, flush.  The frame counts as
\* sent when all of it was written and flushed.
send_raw(frame, outcome) ==
    IF outcome = "Ok"
    THEN /\ lastSent' = frame
         /\ g_ids' = g_ids \cup { [op |-> nOps, id |-> frame.command_id] }
         /\ g_sent' = TRUE
         /\ g_sends' = g_sends + 1
         /\ g_writes' = g_writes + (IF frame.kind = "StorageWriteRequest" THEN 1 ELSE 0)
         /\ g_pings' = g_pings + (IF frame.kind = "SystemPingRequest" THEN 1 ELSE 0)
         /\ g_reads' = g_reads
                + (IF frame.kind \in {"StorageReadRequest", "StorageListRequest"} THEN 1 ELSE 0)
         /\ g_covered' = g_covered
                + (IF frame.kind = "StorageWriteRequest" THEN frame.data.len ELSE 0)
         /\ g_sincePing' = IF frame.kind = "SystemPingRequest" THEN 0
                           ELSE IF frame.kind = "StorageWriteRequest" THEN g_sincePing + 1
                           ELSE g_sincePing
         /\ g_gap' = IF g_sent THEN g_recvSinceSend ELSE -1
         /\ g_recvSinceSend' = 0
         /\ UNCHANGED g_fail
    ELSE /\ g_fail' = outcome
         /\ UNCHANGED << lastSent, g_ids, g_sent, g_sends, g_writes, g_pings, g_reads,
                         g_covered, g_sincePing, g_gap, g_recvSinceSend >>

\* TransportRaw::receive_raw returning Ok(frame): one response consumed
receive_raw_ok ==
    /\ g_recvSinceSend' = g_recvSinceSend + 1
    /\ UNCHANGED << lastSent, g_ids, g_sent, g_sends, g_writes, g_pings, g_reads,
                    g_covered, g_sincePing, g_gap, g_fail >>

\* TransportRaw::receive_raw returning Ok(frame) with a content the caller
\* has no use for
receive_raw_unusable(content) ==
    /\ g_recvSinceSend' = g_recvSinceSend + 1
    /\ g_fail' = content
    /\ UNCHANGED << lastSent, g_ids, g_sent, g_sends, g_writes, g_pings, g_reads,
                    g_covered, g_sincePing, g_gap >>

\* TransportRaw::receive_raw returning Err(e): no response was handed over
receive_raw_err(e) ==
    /\ g_fail' = e
    /\ UNCHANGED << lastSent, g_ids, g_sent, g_sends, g_writes, g_pings, g_reads,
                    g_covered, g_sincePing, g_gap, g_recvSinceSend >>

\* mutant: the id is taken after the index was advanced
Transport_send_idAfter(kind, outcome) ==
    LET id == increment_command_index(command_index, U32Of(1))
        proto == into_rpc(kind, NoSlice, 0, id)
    IN  IF outcome = "Overflow"
        THEN UNCHANGED << command_index, g_standalone, chanVars >>
        ELSE /\ command_index' = increment_command_index(command_index, U32Of(1))
             /\ g_standalone' = IF g_standalone >= 0 THEN g_standalone + 1 ELSE -1
             /\ send_raw(proto, outcome)

\* mutant: the index is advanced once send_raw has succeeded
Transport_send_incAfter(kind, outcome) ==
    LET id == command_index
        proto == into_rpc(kind, NoSlice, 0, id)
    IN  IF outcome = "Overflow"
        THEN UNCHANGED << command_index, g_standalone, chanVars >>
        ELSE /\ command_index' = IF outcome = "Ok"
                                 THEN increment_command_index(command_index, U32Of(1))
                                 ELSE command_index
             /\ g_standalone' = IF g_standalone >= 0 THEN g_standalone + 1 ELSE -1
             /\ send_raw(proto, outcome)

\* how Transport::send can end: as its send_raw does, or in the panic of
\* increment_command_index before anything is sent
TransportSendOutcomes ==
    IF "panic" \in AddOutcomes(command_index, U32Of(1))
    THEN SendOutcomes \cup {"Overflow"}
    ELSE SendOutcomes

\* what a call returns when its send did not succeed
SendFailed(outcome) ==
    IF outcome = "Overflow" THEN Panicked("overflow") ELSE RetErr(outcome)

\* Transport::send: take the current index as the frame's id, advance the
\* index by one, then send_raw
Transport_send(kind, outcome) ==
    LET id == command_index
        proto == into_rpc(kind, NoSlice, 0, id)
    IN  IF outcome = "Overflow"
        THEN UNCHANGED << command_index, g_standalone, chanVars >>
        ELSE /\ command_index' = increment_command_index(command_index, U32Of(1))
             /\ g_standalone' = IF g_standalone >= 0 THEN g_standalone + 1 ELSE -1
             /\ send_raw(proto, outcome)

----------------------------------------------------------------------------
(* Calls and returns *)

writeLocals == << data_len, chunks, total_chunks, command_id, i, chunk, tx, sent >>

\* the locals of fs_write do not exist outside it
NoWriteLocals ==
    /\ data_len' = 0
    /\ chunks' = NoIter
    /\ total_chunks' = 0
    /\ command_id' = U32Of(0)
    /\ i' = 0
    /\ chunk' = NoSlice
    /\ tx' = NoSink
    /\ sent' = 0

\* a call starts at position `at` (or has returned `r` at once): the
\* history of the previous call is dropped
StartCall(name, rq, at, r) ==
    /\ h_session.open
    /\ pc = "idle"
    /\ ret.status # "Panic"
    /\ nOps < MaxOps
    /\ nOps' = nOps + 1
    /\ call' = name
    /\ pc' = at
    /\ ret' = r
    /\ g_errFree' = (g_errFree /\ r.status # "Err")
    /\ buf' = <<>>
    /\ req' = rq
    /\ g_idx0' = command_index
    /\ g_sends' = 0
    /\ g_writes' = 0
    /\ g_pings' = 0
    /\ g_reads' = 0
    /\ g_covered' = 0
    /\ g_sincePing' = 0
    /\ g_rx' = <<>>
    /\ g_rxLast' = FALSE
    /\ g_fail' = ""
    /\ g_standalone' = IF name = "send_and_receive" THEN g_standalone ELSE -1
    /\ lastSent' = NoFrame
    /\ read_size' = -1
    /\ UNCHANGED << command_index, featReadMetadata, g_sent, g_ids, g_recvSinceSend, g_gap,
                    framingVars, handshakeVars, functionVars, deviceVars >>

\* a call returns
Return(value) ==
    /\ pc' = "idle"
    /\ ret' = value
    /\ g_errFree' = (g_errFree /\ value.status = "Ok")

\* a call goes on at position `at`
Goto(at) ==
    /\ pc' = at
    /\ UNCHANGED << ret, g_errFree >>

\* what no step of a running call changes
callConst ==
    << call, nOps, featReadMetadata, g_idx0, framingVars, handshakeVars, functionVars,
       d_mode >>

\* the same, for a call whose responses are not followed on the line
sessionConst == << callConst, replyVars >>

readHist == << g_rx, g_rxLast >>

----------------------------------------------------------------------------
(* FsWrite::fs_write *)

\* the data lengths tried: the large ones on a fresh session only
WriteLens ==
    IF d_mode = "store" THEN SmallLens \cup {10 * CHUNK_SIZE}
    ELSE IF nOps = 0 THEN SmallLens \cup LargeLens ELSE SmallLens

\* the progress sinks tried with data of len bytes
SinksFor(len) == IF len \in LargeLens THEN {"None"} ELSE Sinks

\* path checks, chunks_or_empty, total_chunks, command_id = command_index()
FsWriteCall ==
    \/ \E len \in WriteLens : \E conn \in SinksFor(len) :
          /\ data_len' = len
          /\ chunks' = chunks_or_empty(len, CHUNK_SIZE)
          /\ total_chunks' = IterLen(chunks_or_empty(len, CHUNK_SIZE))
          /\ sent' = 0
          /\ tx' = IF conn = "None" THEN NoSink ELSE SinkSend(NewSink(conn), <<0, len>>)
          /\ i' = 0
          /\ chunk' = NoSlice
          /\ IF conn = "Disconnected"
             THEN /\ StartCall("fs_write", "none", "idle", RetErr("MpscSend"))
                  /\ command_id' = U32Of(0)
             ELSE /\ StartCall("fs_write", "none", "w_loop", NoRet)
                  /\ command_id' = command_index
    \/ \E path \in Paths \ {"file"} :
          /\ StartCall("fs_write", "none", "idle", RetErr("Io"))
          /\ NoWriteLocals

\* the head of the for loop: the next chunk, and the keepalive ping's send
\* when one is due; after the last chunk increment_command_index(2), Ok(())
FsWriteLoop ==
    /\ pc = "w_loop"
    /\ UNCHANGED << sessionConst, read_size, d_file, d_pos, data_len, total_chunks, command_id, i,
                    tx, sent, req, buf, readHist, g_standalone >>
    /\ IF ~IterHasNext(chunks)
       THEN /\ UNCHANGED chanVars
            /\ UNCHANGED << chunks, chunk >>
            /\ \E sum \in AddOutcomes(command_index, U32Of(WRITE_CLOSE_INCREMENT)) :
                  IF sum = "panic"
                  THEN /\ UNCHANGED << command_index, g_data >>
                       /\ Return(Panicked("overflow"))
                  ELSE /\ command_index' =
                            increment_command_index(command_index,
                                                    U32Of(WRITE_CLOSE_INCREMENT))
                       /\ g_data' = IF d_mode = "store" THEN data_len ELSE g_data
                       /\ Return(RetOk(<<>>))
       ELSE /\ chunk' = IterItem(chunks)
            /\ chunks' = IterAdvance(chunks)
            /\ UNCHANGED << command_index, g_data >>
            /\ IF PingDue(i)
               THEN \E sum \in AddOutcomes(command_id, U32Of(1)) :
                      IF sum = "panic"
                      THEN UNCHANGED chanVars /\ Return(Panicked("overflow"))
                      ELSE \E outcome \in SendOutcomes :
                             /\ send_raw(into_rpc("SystemPingRequest", NoSlice, 0,
                                                  PingId(command_id)),
                                         outcome)
                             /\ IF outcome = "Ok" THEN Goto("w_ping_recv")
                                                  ELSE Return(RetErr(outcome))
               ELSE /\ UNCHANGED chanVars
                    /\ Goto("w_chunk")

\* mutant: the ping's response is not waited for
FsWritePingRecv_noWait ==
    /\ pc = "w_ping_recv"
    /\ UNCHANGED << sessionConst, read_size, stored, writeLocals, req, buf, readHist, g_standalone,
                    command_index, chanVars >>
    /\ Goto("w_chunk")

\* the keepalive ping's receive_raw
FsWritePingRecv ==
    /\ pc = "w_ping_recv"
    /\ UNCHANGED << sessionConst, read_size, stored, writeLocals, req, buf, readHist, g_standalone,
                    command_index >>
    /\ \/ receive_raw_ok /\ Goto("w_chunk")
       \/ \E e \in RecvErrors : receive_raw_err(e) /\ Return(RetErr(e))

\* the device gets a write request that was sent: "store" keeps the chunk's
\* data, in a new file when the request opens a chain and at the end of the
\* file otherwise
DeviceWrite(frame, outcome) ==
    IF outcome = "Ok" /\ d_mode = "store"
    THEN /\ d_file' = IF g_writes = 0 THEN SliceBytes(frame.data)
                                      ELSE d_file \o SliceBytes(frame.data)
         /\ g_data' = -1
    ELSE UNCHANGED << d_file, g_data >>

\* has_next, the write request, and its send_raw
FsWriteChunkSend ==
    /\ pc = "w_chunk"
    /\ UNCHANGED << sessionConst, read_size, d_pos, writeLocals, req, buf, readHist, g_standalone,
                    command_index >>
    /\ LET has_next == HasNext(i, total_chunks)
           write_req == with_has_next(
                           into_rpc("StorageWriteRequest", chunk, chunk.len, command_id),
                           has_next)
       IN  \E outcome \in SendOutcomes :
              /\ send_raw(write_req, outcome)
              /\ DeviceWrite(write_req, outcome)
              /\ IF outcome = "Ok" THEN Goto("w_chunk_recv")
                                   ELSE Return(RetErr(outcome))

\* mutant: a report that could not be delivered is dropped
ReportProgress_ignoreFailure ==
    /\ i' = i + 1
    /\ Goto("w_loop")
    /\ IF tx.conn = "None"
       THEN UNCHANGED << tx, sent >>
       ELSE /\ sent' = AddSent(sent, chunk.len)
            /\ tx' = SinkSend(tx, <<AddSent(sent, chunk.len), data_len>>)

\* after the acknowledgement of a chunk: with a sink, sent += chunk.len()
\* and tx.send((sent, total_data))?; then the next iteration
ReportProgress ==
    IF tx.conn = "None"
    THEN /\ UNCHANGED << tx, sent >>
         /\ i' = i + 1
         /\ Goto("w_loop")
    ELSE /\ sent' = AddSent(sent, chunk.len)
         /\ tx' = SinkSend(tx, <<AddSent(sent, chunk.len), data_len>>)
         /\ IF tx.conn = "Connected"
            THEN i' = i + 1 /\ Goto("w_loop")
            ELSE UNCHANGED i /\ Return(RetErr("MpscSend"))

\* mutant: the index advances with every acknowledged chunk
FsWriteChunkRecv_perChunk ==
    /\ pc = "w_chunk_recv"
    /\ UNCHANGED << sessionConst, read_size, stored, data_len, chunks, total_chunks, command_id,
                    chunk, req, buf, readHist, g_standalone >>
    /\ \/ /\ receive_raw_ok
          /\ command_index' = increment_command_index(command_index, U32Of(1))
          /\ ReportProgress
       \/ \E e \in RecvErrors :
             /\ receive_raw_err(e)
             /\ UNCHANGED << i, tx, sent, command_index >>
             /\ Return(RetErr(e))

\* mutant: a chunk whose acknowledgement failed is sent again
FsWriteChunkRecv_retry ==
    /\ pc = "w_chunk_recv"
    /\ UNCHANGED << sessionConst, read_size, stored, data_len, chunks, total_chunks, command_id,
                    chunk, req, buf, readHist, g_standalone, command_index >>
    /\ \/ receive_raw_ok /\ ReportProgress
       \/ \E e \in RecvErrors :
             receive_raw_err(e) /\ UNCHANGED << i, tx, sent >> /\ Goto("w_chunk")

\* the chunk's receive_raw, then the next iteration
FsWriteChunkRecv ==
    /\ pc = "w_chunk_recv"
    /\ UNCHANGED << sessionConst, read_size, stored, data_len, chunks, total_chunks, command_id,
                    chunk, req, buf, readHist, g_standalone, command_index >>
    /\ \/ receive_raw_ok /\ ReportProgress
       \/ \E e \in RecvErrors :
             receive_raw_err(e) /\ UNCHANGED << i, tx, sent >> /\ Return(RetErr(e))

\* the receiver of the progress channel is dropped by its owner while the
\* write runs
SinkDrop ==
    /\ pc \in {"w_loop", "w_ping_recv", "w_chunk", "w_chunk_recv"}
    /\ tx.conn = "Connected"
    /\ tx' = [tx EXCEPT !.conn = "Disconnected"]
    /\ UNCHANGED << sessionConst, read_size, stored, data_len, chunks, total_chunks, command_id, i,
                    chunk, sent, req, buf, readHist, g_standalone, command_index,
                    chanVars, pc, ret, g_errFree >>

----------------------------------------------------------------------------
(* Transport::send_and_receive of a standalone request *)

StandaloneRequests == {"SystemPingRequest", "StorageMkdirRequest"}

SendAndReceiveCall ==
    /\ \E kind \in StandaloneRequests : StartCall("send_and_receive", kind, "s_send", NoRet)
    /\ NoWriteLocals

\* self.send(value)?
SendAndReceiveSend ==
    /\ pc = "s_send"
    /\ UNCHANGED << sessionConst, read_size, stored, writeLocals, req, buf, readHist >>
    /\ \E outcome \in TransportSendOutcomes :
          /\ Transport_send(req, outcome)
          /\ IF outcome = "Ok" THEN Goto("s_recv") ELSE Return(SendFailed(outcome))

\* self.receive(): receive_raw, then the frame as a Response
SendAndReceiveRecv ==
    /\ pc = "s_recv"
    /\ UNCHANGED << sessionConst, read_size, stored, writeLocals, req, buf, readHist, g_standalone,
                    command_index >>
    /\ \/ receive_raw_ok /\ Return(RetOk(<<>>))
       \/ \E e \in RecvErrors : receive_raw_err(e) /\ Return(RetErr(e))

----------------------------------------------------------------------------
(* FsRead::fs_read *)

\* has_next of the frame the device sends next in a chain: the device ends
\* every chain within MaxReadFrames frames
DeviceHasNext == IF Len(g_rx) + 1 < MaxReadFrames THEN BOOLEAN ELSE {FALSE}

\* the part of the file the device has not served yet
DeviceRest == SubSeq(d_file, d_pos + 1, Len(d_file))

\* the payloads the next storage-read response frame can carry: "store"
\* serves the rest of the file, at once or CHUNK_SIZE bytes of it
FilePieces ==
    IF d_mode = "store"
    THEN { DeviceRest,
           SubSeq(DeviceRest, 1,
                  IF Len(DeviceRest) < CHUNK_SIZE THEN Len(DeviceRest) ELSE CHUNK_SIZE) }
    ELSE Payloads

\* the has_next flag that comes with the payload: "store" sets it while a
\* part of the file is left
DeviceServes(hn, data) ==
    IF d_mode = "store"
    THEN hn = (Len(data) < Len(DeviceRest))
    ELSE hn \in DeviceHasNext

DeviceServed(data) == IF d_mode = "store" THEN d_pos + Len(data) ELSE d_pos

\* os_str_to_str(path)?
FsReadCall ==
    /\ \E path \in Paths :
          IF path = "not_utf8"
          THEN StartCall("fs_read", "none", "idle", RetErr("Io"))
          ELSE StartCall("fs_read", "none",
                         IF featReadMetadata THEN "r_meta_send" ELSE "r_send", NoRet)
    /\ NoWriteLocals

\* the size a storage-stat response declares: none (no file in it), or a
\* number of bytes; the storing device declares what it holds
DeclaredSizes == IF d_mode = "store" THEN {Len(d_file)} ELSE {-1, 0, 3}

\* feature fs-read-metadata: send_and_receive(StorageMetadata), its send
FsReadMetaSend ==
    /\ pc = "r_meta_send"
    /\ UNCHANGED << sessionConst, read_size, stored, writeLocals, req, buf, readHist >>
    /\ \E outcome \in TransportSendOutcomes :
          /\ Transport_send("StorageStatRequest", outcome)
          /\ IF outcome = "Ok" THEN Goto("r_meta_recv") ELSE Return(SendFailed(outcome))

\* its receive, and the response as Option<u32>
FsReadMetaRecv ==
    /\ pc = "r_meta_recv"
    /\ UNCHANGED << sessionConst, stored, writeLocals, req, buf, readHist, g_standalone,
                    command_index >>
    /\ \/ \E declared \in DeclaredSizes :
             /\ receive_raw_ok
             /\ read_size' = declared
             /\ Goto("r_send")
       \/ /\ receive_raw_ok
          /\ UNCHANGED read_size
          /\ Return(RetErr("Io"))
       \/ \E e \in RecvErrors :
             receive_raw_err(e) /\ UNCHANGED read_size /\ Return(RetErr(e))

\* self.send(Request::StorageRead(path))?
FsReadSend ==
    /\ pc = "r_send"
    /\ UNCHANGED << sessionConst, read_size, d_file, g_data, writeLocals, req, buf, readHist >>
    /\ d_pos' = 0
    /\ \E outcome \in TransportSendOutcomes :
          /\ Transport_send("StorageReadRequest", outcome)
          /\ IF outcome = "Ok" THEN Goto("r_drain") ELSE Return(SendFailed(outcome))

\* mutant: the loop is left before the final frame's payload is appended
FsReadDrain_dropLast ==
    /\ pc = "r_drain"
    /\ UNCHANGED << sessionConst, read_size, d_file, g_data, writeLocals, req,
                    g_standalone, command_index >>
    /\ \/ \E hn \in BOOLEAN, data \in FilePieces :
             /\ DeviceServes(hn, data)
             /\ receive_raw_ok
             /\ d_pos' = DeviceServed(data)
             /\ buf' = IF hn THEN buf \o data ELSE buf
             /\ g_rx' = Append(g_rx, data)
             /\ g_rxLast' = hn
             /\ IF hn THEN Goto("r_drain") ELSE Return(RetOk(buf))
       \/ \E e \in RecvErrors :
             /\ receive_raw_err(e)
             /\ UNCHANGED << buf, readHist, d_pos >>
             /\ Return(RetErr(e))

\* mutant: every continuation frame is asked for with a request of its own
FsReadDrain_resend ==
    /\ pc = "r_drain"
    /\ UNCHANGED << sessionConst, read_size, d_file, g_data, writeLocals, req,
                    g_standalone, command_index >>
    /\ \/ \E hn \in BOOLEAN, data \in FilePieces :
             /\ DeviceServes(hn, data)
             /\ receive_raw_ok
             /\ d_pos' = DeviceServed(data)
             /\ buf' = buf \o data
             /\ g_rx' = Append(g_rx, data)
             /\ g_rxLast' = hn
             /\ IF hn THEN Goto("r_send") ELSE Return(RetOk(buf \o data))
       \/ \E e \in RecvErrors :
             /\ receive_raw_err(e)
             /\ UNCHANGED << buf, readHist, d_pos >>
             /\ Return(RetErr(e))

\* the contents of a frame without a file payload: a storage-read response
\* whose file is None, no content, another response
NoFileContents == {"StorageReadResponseNoFile", "Empty", "SystemPingResponse"}

\* mutant: a frame without a file payload ends the read with what was read
FsReadDrain_noFileEnds ==
    /\ pc = "r_drain"
    /\ UNCHANGED << sessionConst, read_size, d_file, g_data, writeLocals, req,
                    g_standalone, command_index >>
    /\ \/ \E hn \in BOOLEAN, data \in FilePieces :
             /\ DeviceServes(hn, data)
             /\ receive_raw_ok
             /\ d_pos' = DeviceServed(data)
             /\ buf' = buf \o data
             /\ g_rx' = Append(g_rx, data)
             /\ g_rxLast' = hn
             /\ IF hn THEN Goto("r_drain") ELSE Return(RetOk(buf \o data))
       \/ \E content \in NoFileContents :
             /\ receive_raw_unusable(content)
             /\ UNCHANGED << buf, readHist, d_pos >>
             /\ Return(RetOk(buf))
       \/ \E e \in RecvErrors :
             /\ receive_raw_err(e)
             /\ UNCHANGED << buf, readHist, d_pos >>
             /\ Return(RetErr(e))

\* mutant: after a receive error the loop receives again
FsReadDrain_retry ==
    /\ pc = "r_drain"
    /\ UNCHANGED << sessionConst, read_size, d_file, g_data, writeLocals, req,
                    g_standalone, command_index >>
    /\ \/ \E hn \in BOOLEAN, data \in FilePieces :
             /\ DeviceServes(hn, data)
             /\ receive_raw_ok
             /\ d_pos' = DeviceServed(data)
             /\ buf' = buf \o data
             /\ g_rx' = Append(g_rx, data)
             /\ g_rxLast' = hn
             /\ IF hn THEN Goto("r_drain") ELSE Return(RetOk(buf \o data))
       \/ \E content \in NoFileContents :
             /\ receive_raw_unusable(content)
             /\ UNCHANGED << buf, readHist, d_pos >>
             /\ Return(RetErr("Io"))
       \/ /\ receive_raw_unusable("StorageReadResponseDir")
          /\ UNCHANGED << buf, readHist, d_pos >>
          /\ Return(Panicked("unreachable"))
       \/ \E e \in RecvErrors :
             /\ receive_raw_err(e)
             /\ UNCHANGED << buf, readHist, d_pos >>
             /\ Goto("r_drain")

\* one turn of the loop: receive_raw, has_next, the payload appended
FsReadDrain ==
    /\ pc = "r_drain"
    /\ UNCHANGED << sessionConst, read_size, d_file, g_data, writeLocals, req,
                    g_standalone, command_index >>
    /\ \/ \E hn \in BOOLEAN, data \in FilePieces :
             /\ DeviceServes(hn, data)
             /\ receive_raw_ok
             /\ d_pos' = DeviceServed(data)
             /\ buf' = buf \o data
             /\ g_rx' = Append(g_rx, data)
             /\ g_rxLast' = hn
             /\ IF hn THEN Goto("r_drain") ELSE Return(RetOk(buf \o data))
       \/ \E content \in NoFileContents :
             /\ receive_raw_unusable(content)
             /\ UNCHANGED << buf, readHist, d_pos >>
             /\ Return(RetErr("Io"))
       \/ /\ receive_raw_unusable("StorageReadResponseDir")
          /\ UNCHANGED << buf, readHist, d_pos >>
          /\ Return(Panicked("unreachable"))
       \/ \E e \in RecvErrors :
             /\ receive_raw_err(e)
             /\ UNCHANGED << buf, readHist, d_pos >>
             /\ Return(RetErr(e))

----------------------------------------------------------------------------
(* FsReadDir::fs_read_dir *)

FsReadDirCall ==
    /\ \E path \in Paths :
          IF path = "not_utf8"
          THEN StartCall("fs_read_dir", "none", "idle", RetErr("Io"))
          ELSE StartCall("fs_read_dir", "none", "d_send", NoRet)
    /\ NoWriteLocals

\* self.send(Request::StorageList(..))?
FsReadDirSend ==
    /\ pc = "d_send"
    /\ UNCHANGED << sessionConst, read_size, stored, writeLocals, req, buf, readHist >>
    /\ \E outcome \in TransportSendOutcomes :
          /\ Transport_send("StorageListRequest", outcome)
          /\ IF outcome = "Ok" THEN Goto("d_drain") ELSE Return(SendFailed(outcome))

\* mutant: the items of the frame that ends the chain are left out
FsReadDirDrain_dropLast ==
    /\ pc = "d_drain"
    /\ UNCHANGED << sessionConst, read_size, stored, writeLocals, req, g_standalone,
                    command_index >>
    /\ \/ \E hn \in DeviceHasNext, items \in ItemChunks :
             /\ receive_raw_ok
             /\ buf' = IF hn THEN buf \o items ELSE buf
             /\ g_rx' = Append(g_rx, items)
             /\ g_rxLast' = hn
             /\ IF hn THEN Goto("d_drain") ELSE Return(RetOk(buf))
       \/ /\ receive_raw_ok
          /\ UNCHANGED << buf, readHist >>
          /\ Return(RetErr("Io"))
       \/ \E e \in RecvErrors :
             /\ receive_raw_err(e)
             /\ UNCHANGED << buf, readHist >>
             /\ Return(RetErr(e))

\* one turn of the loop: receive_raw, has_next, the items appended
FsReadDirDrain ==
    /\ pc = "d_drain"
    /\ UNCHANGED << sessionConst, read_size, stored, writeLocals, req, g_standalone,
                    command_index >>
    /\ \/ \E hn \in DeviceHasNext, items \in ItemChunks :
             /\ receive_raw_ok
             /\ buf' = buf \o items
             /\ g_rx' = Append(g_rx, items)
             /\ g_rxLast' = hn
             /\ IF hn THEN Goto("d_drain") ELSE Return(RetOk(buf \o items))
       \/ /\ receive_raw_ok
          /\ UNCHANGED << buf, readHist >>
          /\ Return(RetErr("Io"))
       \/ \E e \in RecvErrors :
             /\ receive_raw_err(e)
             /\ UNCHANGED << buf, readHist >>
             /\ Return(RetErr(e))

----------------------------------------------------------------------------

Next ==
    \/ SendAndReceiveCall
    \/ SendAndReceiveSend
    \/ SendAndReceiveRecv
    \/ FsWriteCall
    \/ FsWriteLoop
    \/ FsWritePingRecv
    \/ FsWriteChunkSend
    \/ FsWriteChunkRecv
    \/ SinkDrop
    \/ FsReadCall
    \/ FsReadMetaSend
    \/ FsReadMetaRecv
    \/ FsReadSend
    \/ FsReadDrain
    \/ FsReadDirCall
    \/ FsReadDirSend
    \/ FsReadDirDrain

Spec == Init /\ [][Next]_vars

----------------------------------------------------------------------------
(* send_raw and receive_raw on the byte channel *)

\* receive_raw returns
RxReturn(value) ==
    /\ rx_pc' = "done"
    /\ rx_ret' = value

\* send_raw at the peer's end of the line: encode_length_delimited_to_vec,
\* write_all, flush.  The peer writes between two receive_raw calls.
SendRawBytes ==
    /\ rx_pc \in {"idle", "done"}
    /\ todo # << >>
    /\ inflight' = inflight \o encode_length_delimited(Head(todo))
    /\ todo' = Tail(todo)
    /\ UNCHANGED << queued, g_partials, framingConst, rxVars, rxHist >>

\* bytes on the line reach the input queue of the port: all of them, or
\* the first few
Arrive ==
    /\ inflight # << >>
    /\ \E n \in {1, 2, Len(inflight)} :
          /\ n <= Len(inflight)
          /\ n < Len(inflight) => g_partials < MaxPartialArrivals
          /\ queued' = queued \o Take(inflight, n)
          /\ inflight' = Drop(inflight, n)
          /\ g_partials' = IF n < Len(inflight) THEN g_partials + 1 ELSE g_partials
    /\ UNCHANGED << todo, framingConst, rxVars, rxHist >>

\* receive_raw is called: self.port.flush()?, the empty buffer
ReceiveRawCall ==
    /\ rx_pc \in {"idle", "done"}
    /\ rx_ret.status # "Panic"
    /\ g_recvs < MaxFrames
    /\ g_recvs' = g_recvs + 1
    /\ rx_buf' = << >>
    /\ available_bytes' = STACK_LIMIT(featLargeStack)
    /\ g_readOps' = 0
    /\ g_stream0' = queued \o inflight
    /\ g_allQueued' = (inflight = << >>)
    /\ g_loopEnd' = "none"
    /\ \E outcome \in SendOutcomes :
          IF outcome = "Ok"
          THEN /\ rx_pc' = IF strategy = "two_stage" THEN "t_read" ELSE "b_varint"
               /\ rx_ret' = NoRet
               /\ g_fault' = FALSE
          ELSE /\ RxReturn(RetErr(outcome))
               /\ g_fault' = TRUE
    /\ UNCHANGED << portVars, framingConst >>

\* buf[from..to] of a buffer of len bytes does not panic
InBounds(from, to, len) == from <= to /\ to <= len

\* two-stage, the first-stage loop: while read < available_bytes, one
\* self.port.read(&mut buf[read..])
TwoStageRead ==
    /\ rx_pc = "t_read"
    /\ UNCHANGED << todo, inflight, g_partials, framingConst,
                    available_bytes, g_stream0, g_allQueued, g_recvs >>
    /\ IF ~(Len(rx_buf) < available_bytes)
       THEN /\ rx_pc' = "t_decode"
            /\ g_loopEnd' = "cond"
            /\ UNCHANGED << queued, rx_buf, rx_ret, g_readOps, g_fault >>
       ELSE /\ g_readOps' = g_readOps + 1
            /\ LET space == STACK_LIMIT(featLargeStack) - Len(rx_buf)
                   n == Min(space, Len(queued))
               IN  \/ /\ ~InBounds(Len(rx_buf), STACK_LIMIT(featLargeStack),
                                    STACK_LIMIT(featLargeStack))
                      /\ RxReturn(Panicked("index"))
                      /\ UNCHANGED << queued, rx_buf, g_loopEnd, g_fault >>
                   \/ /\ n > 0
                      /\ rx_buf' = rx_buf \o Take(queued, n)
                      /\ queued' = Drop(queued, n)
                      /\ rx_pc' = "t_avail"
                      /\ UNCHANGED << rx_ret, g_loopEnd, g_fault >>
                   \/ /\ n = 0
                      /\ \E end \in {"zero", "timeout"} : g_loopEnd' = end
                      /\ rx_pc' = "t_decode"
                      /\ UNCHANGED << queued, rx_buf, rx_ret, g_fault >>
                   \/ /\ RxReturn(RetErr("Io"))
                      /\ g_loopEnd' = "error"
                      /\ g_fault' = TRUE
                      /\ UNCHANGED << queued, rx_buf >>

\* the first-stage loop after Ok(n): available_bytes = bytes_to_read()?
TwoStageAvail ==
    /\ rx_pc = "t_avail"
    /\ UNCHANGED << portVars, framingConst, rx_buf, g_readOps, g_stream0,
                    g_allQueued, g_recvs >>
    /\ \/ /\ available_bytes' = Len(queued)
          /\ rx_pc' = "t_read"
          /\ UNCHANGED << rx_ret, g_loopEnd, g_fault >>
       \/ /\ RxReturn(RetErr("Serialport"))
          /\ g_loopEnd' = "error"
          /\ g_fault' = TRUE
          /\ UNCHANGED available_bytes

\* two-stage, after the loop: the no-data check, the length, partial_data,
\* and the decode when all of the message is in buf
TwoStageDecode ==
    /\ rx_pc = "t_decode"
    /\ UNCHANGED << portVars, framingConst, rx_buf, available_bytes, rxHist >>
    /\ IF NoDataRead(Len(rx_buf))
       THEN RxReturn(RetErr("NoData"))
       ELSE LET d == decode_length_delimiter(rx_buf)
                total_data_length == d.value
                varint_length == length_delimiter_len(total_data_length)
                partial_data == Drop(rx_buf, varint_length)
            IN  IF ~d.ok
                THEN RxReturn(RetErr("ProtoDecode"))
                ELSE IF ~InBounds(varint_length, Len(rx_buf), STACK_LIMIT(featLargeStack))
                THEN RxReturn(Panicked("index"))
                ELSE IF total_data_length <= Len(partial_data)
                     THEN \E r \in DecodeResults(partial_data) : RxReturn(r)
                     ELSE rx_pc' = "t_rest" /\ UNCHANGED rx_ret

\* two-stage, the second stage: read_exact of the remaining bytes, decode
\* of partial_data chained with them
TwoStageRest ==
    /\ rx_pc = "t_rest"
    /\ UNCHANGED << todo, inflight, g_partials, framingConst, rx_buf,
                    available_bytes, g_stream0, g_allQueued, g_loopEnd,
                    g_recvs >>
    /\ g_readOps' = g_readOps + 1
    /\ LET total_data_length == decode_length_delimiter(rx_buf).value
           partial_data == Drop(rx_buf, length_delimiter_len(total_data_length))
           remaining_length == total_data_length - Len(partial_data)
       IN  \/ /\ Len(queued) >= remaining_length
              /\ queued' = Drop(queued, remaining_length)
              /\ \E r \in DecodeResults(partial_data \o Take(queued, remaining_length)) :
                    RxReturn(r)
              /\ UNCHANGED g_fault
           \/ /\ Len(queued) < remaining_length
              /\ queued' = << >>
              /\ RxReturn(RetErr("Io"))
              /\ UNCHANGED g_fault
           \/ /\ RxReturn(RetErr("Io"))
              /\ g_fault' = TRUE
              /\ UNCHANGED queued

\* byte-wise, the length prefix: read_exact of one byte, up to VARINT_MAX
\* times, until a byte without the high bit
ByteWiseVarint ==
    /\ rx_pc = "b_varint"
    /\ UNCHANGED << todo, inflight, g_partials, framingConst,
                    available_bytes, g_stream0, g_allQueued, g_loopEnd,
                    g_recvs >>
    /\ g_readOps' = g_readOps + 1
    /\ \/ /\ queued # << >>
          /\ rx_buf' = Append(rx_buf, Head(queued))
          /\ queued' = Tail(queued)
          /\ rx_pc' = IF Head(queued) < 128 \/ Len(rx_buf) + 1 = VARINT_MAX
                      THEN "b_body" ELSE "b_varint"
          /\ UNCHANGED << rx_ret, g_fault >>
       \/ /\ queued = << >>
          /\ RxReturn(RetErr("Io"))
          /\ UNCHANGED << queued, rx_buf, g_fault >>
       \/ /\ RxReturn(RetErr("Io"))
          /\ g_fault' = TRUE
          /\ UNCHANGED << queued, rx_buf >>

\* byte-wise, the message: the length, read_exact of that many bytes, decode
ByteWiseBody ==
    /\ rx_pc = "b_body"
    /\ UNCHANGED << todo, inflight, g_partials, framingConst, rx_buf,
                    available_bytes, g_stream0, g_allQueued, g_loopEnd,
                    g_recvs >>
    /\ LET d == decode_length_delimiter(rx_buf)
           len == d.value
       IN  IF ~d.ok
           THEN /\ RxReturn(RetErr("ProtoDecode"))
                /\ UNCHANGED << queued, g_readOps, g_fault >>
           ELSE IF len = 0
           THEN /\ \E r \in DecodeResults(<< >>) : RxReturn(r)
                /\ UNCHANGED << queued, g_readOps, g_fault >>
           ELSE /\ g_readOps' = g_readOps + 1
                /\ \/ /\ Len(queued) >= len
                      /\ queued' = Drop(queued, len)
                      /\ \E r \in DecodeResults(Take(queued, len)) : RxReturn(r)
                      /\ UNCHANGED g_fault
                   \/ /\ Len(queued) < len
                      /\ queued' = << >>
                      /\ RxReturn(RetErr("Io"))
                      /\ UNCHANGED g_fault
                   \/ /\ RxReturn(RetErr("Io"))
                      /\ g_fault' = TRUE
                      /\ UNCHANGED queued

InitFraming ==
    /\ SessionNew
    /\ featReadMetadata = FALSE
    /\ HandshakeDone
    /\ FunctionsIdle
    /\ DeviceAny
    /\ strategy \in {"two_stage", "byte_wise"}
    /\ featLargeStack \in BOOLEAN
    /\ todo \in Streams
    /\ inflight = << >>
    /\ queued = << >>
    /\ g_partials = 0
    /\ rx_pc = "idle"
    /\ rx_buf = << >>
    /\ available_bytes = 0
    /\ rx_ret = NoRet
    /\ g_readOps = 0
    /\ g_stream0 = << >>
    /\ g_allQueued = FALSE
    /\ g_fault = FALSE
    /\ g_loopEnd = "none"
    /\ g_recvs = 0

NextFraming ==
    \/ SendRawBytes
    \/ Arrive
    \/ ReceiveRawCall
    \/ TwoStageRead
    \/ TwoStageAvail
    \/ TwoStageDecode
    \/ TwoStageRest
    \/ ByteWiseVarint
    \/ ByteWiseBody

SpecFraming == InitFraming /\ [][NextFraming]_vars

----------------------------------------------------------------------------
(* The steps of SerialRpcTransport::new *)

\* new returns an error: no session
HsFail(e) ==
    /\ h_pc' = "h_failed"
    /\ h_ret' = RetErr(e)

\* reader.read(buf) with max bytes of room, when bytes are there: the
\* bytes of the burst at the head of the line, as many as fit
ReadData(max) == Take(Head(h_line), Min(max, Len(Head(h_line))))

\* the line after that read
ReadLine(max) ==
    Bursts(<< Drop(Head(h_line), Min(max, Len(Head(h_line)))) >>) \o Tail(h_line)

\* time passes: the deadline of the running drain is reached
DeadlinePasses ==
    /\ h_pc \in {"h_prompt", "h_newline"}
    /\ ~h_expired
    /\ h_expired' = TRUE
    /\ UNCHANGED << handshakeFixed, command_index, h_pc, h_line, g_read, h_buf,
                    h_filled, h_written, h_ret, h_session, g_steps >>

\* one turn of the loop of drain_until_str(&mut port, ">: ", TIMEOUT); buf
\* and filled are gone when it returns
DrainUntilStr ==
    /\ h_pc = "h_prompt"
    /\ UNCHANGED << handshakeFixed, command_index, h_written, h_session >>
    /\ LET shift == h_filled > DRAIN_CHUNK_SIZE
           b == IF shift THEN CopyWithin(h_buf) ELSE h_buf
           filled == IF shift THEN h_filled - DRAIN_CHUNK_SIZE ELSE h_filled
       IN  IF h_expired
           THEN /\ HsFail("Timeout searching for '>: '")
                /\ h_buf' = << >>
                /\ h_filled' = 0
                /\ UNCHANGED << h_line, g_read, h_expired, g_steps >>
           ELSE \/ /\ h_line # << >>
                   /\ LET data == ReadData(Min(DRAIN_CHUNK_SIZE, BUF_LEN - filled))
                          nb == ReadInto(b, filled, data)
                      IN  /\ h_line' = ReadLine(Min(DRAIN_CHUNK_SIZE, BUF_LEN - filled))
                          /\ g_read' = g_read \o data
                          /\ IF Find(nb, PROMPT)
                             THEN /\ h_pc' = "h_write"
                                  /\ g_steps' = Append(g_steps, "prompt")
                                  /\ h_buf' = << >>
                                  /\ h_filled' = 0
                             ELSE /\ h_buf' = nb
                                  /\ h_filled' = filled + Len(data)
                                  /\ UNCHANGED << h_pc, g_steps >>
                          /\ UNCHANGED << h_ret, h_expired >>
                \/ \E quiet \in {"zero", "timeout"} :
                     /\ h_line = << >>
                     /\ h_buf' = b
                     /\ h_filled' = filled
                     /\ h_expired' = (quiet = "timeout")
                     /\ UNCHANGED << h_pc, h_line, g_read, h_ret, g_steps >>
                \/ /\ HsFail("Io")
                   /\ h_buf' = << >>
                   /\ h_filled' = 0
                   /\ UNCHANGED << h_line, g_read, h_expired, g_steps >>

\* port.write_all("start_rpc_session\r".as_bytes())?
HsWrite ==
    /\ h_pc = "h_write"
    /\ h_path = "new"
    /\ UNCHANGED << handshakeFixed, command_index, h_line, g_read, h_buf, h_filled,
                    h_expired, h_session >>
    /\ \E outcome \in SendOutcomes :
          IF outcome = "Ok"
          THEN /\ h_written' = START_RPC_SESSION
               /\ h_pc' = "h_flush"
               /\ g_steps' = Append(g_steps, "write")
               /\ UNCHANGED h_ret
          ELSE HsFail(outcome) /\ UNCHANGED << h_written, g_steps >>

\* port.flush()?; the device answers the command; the deadline of the
\* second drain starts
HsFlush ==
    /\ h_pc = "h_flush"
    /\ UNCHANGED << handshakeFixed, command_index, g_read, h_buf, h_filled, h_written,
                    h_session >>
    /\ \E outcome \in SendOutcomes :
          IF outcome = "Ok"
          THEN /\ \E reply \in Replies : h_line' = h_line \o Bursts(<< reply >>)
               /\ h_pc' = "h_newline"
               /\ h_expired' = FALSE
               /\ g_steps' = Append(g_steps, "flush")
               /\ UNCHANGED h_ret
          ELSE HsFail(outcome) /\ UNCHANGED << h_line, h_expired, g_steps >>

\* mutant: a newline that did not come in time is not waited for
DrainUntil_lenient ==
    /\ h_pc = "h_newline"
    /\ UNCHANGED << handshakeFixed, command_index, h_line, g_read, h_buf, h_filled,
                    h_written, h_session, h_expired, h_ret >>
    /\ h_pc' = "h_session"
    /\ g_steps' = IF h_expired THEN g_steps ELSE Append(g_steps, "newline")

\* one turn of the loop of drain_until(&mut port, b'\n', TIMEOUT)
DrainUntil ==
    /\ h_pc = "h_newline"
    /\ UNCHANGED << handshakeFixed, command_index, h_buf, h_filled, h_written,
                    h_session >>
    /\ IF h_expired
       THEN /\ HsFail("Timeout searching for byte 0x0a")
            /\ UNCHANGED << h_line, g_read, h_expired, g_steps >>
       ELSE \/ /\ h_line # << >>
               /\ LET data == ReadData(DRAIN_CHUNK_SIZE)
                  IN  /\ h_line' = ReadLine(DRAIN_CHUNK_SIZE)
                      /\ g_read' = g_read \o data
                      /\ IF \E k \in 1..Len(data) : data[k] = NEWLINE
                         THEN /\ h_pc' = "h_session"
                              /\ g_steps' = Append(g_steps, "newline")
                         ELSE UNCHANGED << h_pc, g_steps >>
                      /\ UNCHANGED << h_ret, h_expired >>
            \/ \E quiet \in {"zero", "timeout"} :
                 /\ h_line = << >>
                 /\ h_expired' = (quiet = "timeout")
                 /\ UNCHANGED << h_pc, h_line, g_read, h_ret, g_steps >>
            \/ /\ HsFail("Io")
               /\ UNCHANGED << h_line, g_read, h_expired, g_steps >>

\* Ok(Self { command_index: 0, port })
HsSession ==
    /\ h_pc = "h_session"
    /\ h_pc' = "h_done"
    /\ h_session' = RpcSession
    /\ command_index' = U32Of(0)
    /\ h_ret' = RetOk(<< >>)
    /\ g_steps' = Append(g_steps, "index")
    /\ UNCHANGED << handshakeFixed, h_line, g_read, h_buf, h_filled, h_expired,
                    h_written >>

InitHandshake ==
    /\ SessionNew
    /\ featReadMetadata = FALSE
    /\ FramingIdle
    /\ HandshakeStart
    /\ FunctionsIdle
    /\ DeviceAny

\* new, and then standalone requests on the session it returned
NextHandshake ==
    \/ DeadlinePasses
    \/ DrainUntilStr
    \/ HsWrite
    \/ HsFlush
    \/ DrainUntil
    \/ HsSession
    \/ SendAndReceiveCall
    \/ SendAndReceiveSend
    \/ SendAndReceiveRecv

SpecHandshake == InitHandshake /\ [][NextHandshake]_vars

----------------------------------------------------------------------------
(* SerialCliTransport::new with into_rpc, and SerialRpcTransport::from_port *)

\* "start_rpc_session".to_string()
CliCommand == Take(START_RPC_SESSION, Len(START_RPC_SESSION) - 1)

\* into_rpc, self.send(cmd): self.port.write_all(cmd.as_bytes())?
CliSendCommand ==
    /\ h_pc = "h_write"
    /\ h_path = "cli"
    /\ UNCHANGED << handshakeFixed, command_index, h_line, g_read, h_buf, h_filled,
                    h_expired, h_session, g_steps >>
    /\ \E outcome \in SendOutcomes :
          IF outcome = "Ok"
          THEN /\ h_written' = h_written \o CliCommand
               /\ h_pc' = "c_cr"
               /\ UNCHANGED h_ret
          ELSE HsFail(outcome) /\ UNCHANGED h_written

\* mutant: the command is not terminated
CliSendCr_missing ==
    /\ h_pc = "c_cr"
    /\ UNCHANGED << handshakeFixed, command_index, h_line, g_read, h_buf, h_filled,
                    h_expired, h_session, h_written, h_ret >>
    /\ h_pc' = "h_flush"
    /\ g_steps' = Append(g_steps, "write")

\* self.send(cmd): self.port.write_all(b"\r")?
CliSendCr ==
    /\ h_pc = "c_cr"
    /\ UNCHANGED << handshakeFixed, command_index, h_line, g_read, h_buf, h_filled,
                    h_expired, h_session >>
    /\ \E outcome \in SendOutcomes :
          IF outcome = "Ok"
          THEN /\ h_written' = h_written \o << 13 >>
               /\ h_pc' = "h_flush"
               /\ g_steps' = Append(g_steps, "write")
               /\ UNCHANGED h_ret
          ELSE HsFail(outcome) /\ UNCHANGED << h_written, g_steps >>

\* the port is open and the device has its text to emit; from_port is
\* about to wrap the port as it is
InitConstructors ==
    /\ SessionNew
    /\ featReadMetadata = FALSE
    /\ FramingIdle
    /\ FunctionsIdle
    /\ DeviceAny
    /\ h_path \in {"new", "cli", "from_port"}
    /\ h_pc = IF h_path = "from_port" THEN "h_session" ELSE "h_prompt"
    /\ h_line \in TextStreams
    /\ g_read = << >>
    /\ h_buf = IF h_path = "from_port" THEN << >> ELSE NewBuf
    /\ h_filled = 0
    /\ h_expired = FALSE
    /\ h_written = << >>
    /\ h_ret = NoRet
    /\ h_session = NoSession
    /\ g_steps = << >>

NextConstructors ==
    \/ DeadlinePasses
    \/ DrainUntilStr
    \/ HsWrite
    \/ CliSendCommand
    \/ CliSendCr
    \/ HsFlush
    \/ DrainUntil
    \/ HsSession

SpecConstructors == InitConstructors /\ [][NextConstructors]_vars

----------------------------------------------------------------------------
(* Applying into_result and varint_length *)

\* status.into_result(value)
IntoResult ==
    /\ f_pc = "call"
    /\ f_fn = "into_result"
    /\ f_result' = into_result(f_status, f_value)
    /\ f_pc' = "done"
    /\ UNCHANGED << functionFixed, f_fn, f_status, f_value, v_in, v_value, v_len >>

\* varint_length(value): let mut len = 1
VarintLengthCall ==
    /\ f_pc = "call"
    /\ f_fn = "varint_length"
    /\ v_value' = v_in
    /\ v_len' = 1
    /\ f_pc' = "loop"
    /\ UNCHANGED << functionFixed, f_fn, f_status, f_value, f_result, v_in >>

\* one test of the loop condition: value >>= 7; len += 1, or the return of len
VarintLengthLoop ==
    /\ f_pc = "loop"
    /\ IF LoopGoesOn(v_value)
       THEN /\ v_value' = Shr7(v_value)
            /\ v_len' = v_len + 1
            /\ UNCHANGED f_pc
       ELSE /\ f_pc' = "done"
            /\ UNCHANGED << v_value, v_len >>
    /\ UNCHANGED << functionFixed, f_fn, f_status, f_value, f_result, v_in >>

InitFunctions ==
    /\ SessionNew
    /\ featReadMetadata = FALSE
    /\ FramingIdle
    /\ HandshakeDone
    /\ DeviceAny
    /\ f_pc = "call"
    /\ f_result = NoRet
    /\ v_value = Pow2Less1(0)
    /\ v_len = 0
    /\ \/ /\ f_fn = "into_result"
          /\ f_status \in CommandStatuses
          /\ f_value \in ResultValues
          /\ v_in = Pow2Less1(0)
       \/ /\ f_fn = "varint_length"
          /\ f_status = StatusOk
          /\ f_value = << >>
          /\ v_in \in VarintInputs

NextFunctions ==
    \/ IntoResult
    \/ VarintLengthCall
    \/ VarintLengthLoop

SpecFunctions == InitFunctions /\ [][NextFunctions]_vars

----------------------------------------------------------------------------
(* FsCreateDir::fs_create_dir *)

\* what the device can answer a mkdir request with: a status of the
\* enumeration or a value outside it, and a content: none, a response of
\* another kind, or one that Response has no variant for
AnswerStatuses == CommandStatuses \cup { Status("Unrecognized", "") }

AnswerContents == {"Empty", "SystemPingResponse", "StorageMkdirRequest"}

\* Transport::receive of a frame that was read and decoded: the status
\* through try_from(..).unwrap().into_result(frame), then Response::from
receive(status, content) ==
    IF status \notin CommandStatuses
    THEN Panicked("unwrap")
    ELSE IF into_result(status, << content >>).status # "Ok"
    THEN into_result(status, << content >>)
    ELSE IF content = "StorageMkdirRequest"
    THEN Panicked("Cannot convert")
    ELSE RetOk(<< content >>)

\* mutant: every storage error counts as "was there already"
create_dir_match_anyStorage(r) ==
    IF r.status = "Ok" THEN RetOk(<< FALSE >>)
    ELSE IF r.status = "Err" /\ r.err[1] = "StorageError" THEN RetOk(<< TRUE >>)
    ELSE r

\* the match on what send_and_receive returned
create_dir_match(r) ==
    IF r.status = "Ok" THEN RetOk(<< FALSE >>)
    ELSE IF r = RetErr(RpcError("StorageError", "AlreadyExists")) THEN RetOk(<< TRUE >>)
    ELSE r

\* os_str_to_str(path)?, then the call of send_and_receive
FsCreateDirCall ==
    /\ \E path \in Paths :
          IF path = "not_utf8"
          THEN StartCall("fs_create_dir", "none", "idle", RetErr(<< "Io", "InvalidData" >>))
          ELSE StartCall("fs_create_dir", "StorageMkdirRequest", "m_send", NoRet)
    /\ NoWriteLocals

\* send_and_receive: self.send(Request::StorageMkdir(path))?
FsCreateDirSend ==
    /\ pc = "m_send"
    /\ UNCHANGED << sessionConst, read_size, stored, writeLocals, req, buf, readHist >>
    /\ \E outcome \in TransportSendOutcomes :
          /\ Transport_send(req, outcome)
          /\ IF outcome = "Ok" THEN Goto("m_recv")
             ELSE IF outcome = "Overflow" THEN Return(SendFailed(outcome))
             ELSE Return(create_dir_match(RetErr(<< outcome, "" >>)))

\* send_and_receive: self.receive(), and the match on its result
FsCreateDirRecv ==
    /\ pc = "m_recv"
    /\ UNCHANGED << sessionConst, read_size, stored, writeLocals, req, buf, g_standalone,
                    command_index >>
    /\ \/ \E status \in AnswerStatuses, content \in AnswerContents :
             /\ receive_raw_ok
             /\ g_rx' = << << status, content >> >>
             /\ g_rxLast' = FALSE
             /\ Return(create_dir_match(receive(status, content)))
       \/ \E e \in {"Io", "ProtoDecode"} :
             /\ receive_raw_err(e)
             /\ UNCHANGED readHist
             /\ Return(create_dir_match(RetErr(<< e, "" >>)))

NextCreateDir ==
    \/ FsCreateDirCall
    \/ FsCreateDirSend
    \/ FsCreateDirRecv

SpecCreateDir == Init /\ [][NextCreateDir]_vars

----------------------------------------------------------------------------
(* The command index near u32::MAX *)

\* the amounts a caller advances the index by
IncrementBys == { U32Of(1), U32Add(U32Max, U16 - 1), U32Add(U32Max, U16 - 2), U32Max }

\* CommandIndex::increment_command_index called by the owner of a session
\* on which nothing else was called yet
IncrementCommandIndex ==
    /\ h_session.open
    /\ pc = "idle"
    /\ call = "none"
    /\ ret = NoRet
    /\ command_index = U32Of(0)
    /\ \E by \in IncrementBys : \E sum \in AddOutcomes(command_index, by) :
          IF sum = "panic"
          THEN /\ ret' = Panicked("overflow")
               /\ UNCHANGED command_index
          ELSE /\ command_index' = increment_command_index(command_index, by)
               /\ UNCHANGED ret
    /\ UNCHANGED << pc, call, nOps, featReadMetadata, writeLocals, req, buf, chanVars,
                    read_size,
                    g_idx0, readHist, g_errFree, g_standalone, framingVars,
                    handshakeVars, functionVars, deviceVars >>

NextWrap ==
    \/ IncrementCommandIndex
    \/ SendAndReceiveCall
    \/ SendAndReceiveSend
    \/ SendAndReceiveRecv
    \/ FsWriteCall
    \/ FsWriteLoop
    \/ FsWritePingRecv
    \/ FsWriteChunkSend
    \/ FsWriteChunkRecv

SpecWrap == Init /\ [][NextWrap]_vars

----------------------------------------------------------------------------
(* fs_read and fs_read_dir on a session whose every blocking step comes to
   an end: a send is written or fails, a receive hands over a frame or fails
   within the timeout of the port *)

NextRead ==
    \/ FsReadCall
    \/ FsReadMetaSend
    \/ FsReadMetaRecv
    \/ FsReadSend
    \/ FsReadDrain
    \/ FsReadDirCall
    \/ FsReadDirSend
    \/ FsReadDirDrain

\* the steps of a running call: each is one blocking call that ends
ReadSteps ==
    \/ FsReadMetaSend
    \/ FsReadMetaRecv
    \/ FsReadSend
    \/ FsReadDrain
    \/ FsReadDirSend
    \/ FsReadDirDrain

SpecReadLive == Init /\ [][NextRead]_vars /\ WF_vars(ReadSteps)

----------------------------------------------------------------------------
(* send_and_receive with the responses followed on the line: the device
   answers every request with a frame of the request's id, at once or late *)

\* self.send(value)?, and the device reads the frame that was sent
SendAndReceiveSendLine ==
    /\ pc = "s_send"
    /\ UNCHANGED << callConst, read_size, stored, writeLocals, req, buf, readHist,
                    d_line, g_ans >>
    /\ \E outcome \in TransportSendOutcomes :
          /\ Transport_send(req, outcome)
          /\ IF outcome = "Ok"
             THEN /\ d_owed' = Append(d_owed, command_index)
                  /\ Goto("s_recv")
             ELSE /\ UNCHANGED d_owed
                  /\ Return(SendFailed(outcome))

\* the device answers the oldest request it has not answered yet
DeviceAnswers ==
    /\ d_owed # << >>
    /\ d_line' = Append(d_line, Head(d_owed))
    /\ d_owed' = Tail(d_owed)
    /\ UNCHANGED << sessionVars, framingVars, handshakeVars, functionVars, d_mode,
                    stored, g_ans >>

\* self.receive(): let response = self.receive_raw()?; Ok(response.into()),
\* with the next frame on the line, whichever it is, or the timeout of the
\* port when there is none
SendAndReceiveRecvLine ==
    /\ pc = "s_recv"
    /\ UNCHANGED << callConst, read_size, stored, writeLocals, req, buf, readHist,
                    g_standalone, command_index, d_owed >>
    /\ IF d_line # << >>
       THEN /\ receive_raw_ok
            /\ g_ans' = << Head(d_line) >>
            /\ d_line' = Tail(d_line)
            /\ Return(RetOk(<<>>))
       ELSE /\ receive_raw_err("Io")
            /\ Return(RetErr("Io"))
            /\ UNCHANGED << d_line, g_ans >>

NextLine ==
    \/ SendAndReceiveCall
    \/ SendAndReceiveSendLine
    \/ DeviceAnswers
    \/ SendAndReceiveRecvLine

SpecLine == Init /\ [][NextLine]_vars

----------------------------------------------------------------------------
(* fs_write and fs_read against a device that stores what is written *)

\* a new session on a device that keeps the file and holds none yet
InitStore ==
    /\ SessionNew
    /\ featReadMetadata \in BOOLEAN
    /\ FramingIdle
    /\ HandshakeDone
    /\ FunctionsIdle
    /\ d_mode = "store"
    /\ d_file = << >>
    /\ d_pos = 0
    /\ g_data = -1
    /\ NoReplies

NextStore ==
    \/ FsWriteCall
    \/ FsWriteLoop
    \/ FsWriteChunkSend
    \/ FsWriteChunkRecv
    \/ SinkDrop
    \/ FsReadCall
    \/ FsReadMetaSend
    \/ FsReadMetaRecv
    \/ FsReadSend
    \/ FsReadDrain

SpecStore == InitStore /\ [][NextStore]_vars

----------------------------------------------------------------------------
(* Properties *)

\* ceil(n / CHUNK_SIZE), and 1 for n = 0
ExpectedChunks(n) == IF n = 0 THEN 1 ELSE (n + CHUNK_SIZE - 1) \div CHUNK_SIZE

RECURSIVE Flatten(_)
Flatten(ss) == IF ss = <<>> THEN <<>> ELSE Head(ss) \o Flatten(Tail(ss))

RECURSIVE SumLen(_)
SumLen(ss) == IF ss = <<>> THEN 0 ELSE Len(Head(ss)) + SumLen(Tail(ss))

\* the running (or last) call is fs_write and the frame it sent last is a chunk
WroteChunk == call = "fs_write" /\ lastSent.kind = "StorageWriteRequest"

WriteOk == call = "fs_write" /\ pc = "idle" /\ ret.status = "Ok"

\* C1: every storage-write request of one fs_write call carries the command
\* index read at the start of the call as its command_id, and has_next is
\* true on every chunk but the last and false on the last, for every data
\* length, with or without keepalive pings between the chunks.
C1_ChainIdAndHasNext ==
    /\ WroteChunk =>
          /\ lastSent.command_id = g_idx0
          /\ lastSent.has_next = (g_writes < ExpectedChunks(data_len))
    /\ WriteOk => WroteChunk /\ ~lastSent.has_next

\* C1 witness: the last chunk of a write in which a ping was interleaved
C1_Witness ==
    /\ WroteChunk
    /\ g_pings >= 1
    /\ ~lastSent.has_next
    /\ g_writes = 2 * CHUNKS_PER_PING + 1

WriteChainOpen == call = "fs_write" /\ pc # "idle" /\ g_writes >= 1

\* a read chain is open: the request was sent, the final frame not received
ReadChainOpen == pc \in {"r_drain", "d_drain"}

\* C3 as stated: from the first frame of a read or write chain to its final
\* frame the command index keeps the value the chain's id was taken from; it
\* advances only after the final frame.
C3_IndexFixedUntilChainEnd ==
    /\ WriteChainOpen => command_index = command_id
    /\ ReadChainOpen => command_index = lastSent.command_id

\* C3 amended: during a write chain the command index keeps the value read
\* at the start of the call and advances only after the final chunk was
\* sent and acknowledged; in a read chain (fs_read, fs_read_dir) Transport::send
\* advances the index by one when the request is sent, and the index does
\* not change while the frames are drained nor when the final frame arrives.
C3_IndexFixedInChain ==
    /\ call = "fs_write" /\ pc # "idle" => command_index = g_idx0 /\ command_id = g_idx0
    /\ call \in {"fs_read", "fs_read_dir"} /\ g_reads >= 1 =>
          /\ lastSent.kind \in {"StorageReadRequest", "StorageListRequest"}
          /\ command_index = U32Add(lastSent.command_id, 1)

\* C3 witness: a read chain two frames in
C3_Witness == pc = "r_drain" /\ Len(g_rx) = 2 /\ command_index = U32Of(3)

ReadOk == call = "fs_read" /\ pc = "idle" /\ ret.status = "Ok"

\* C4: Transport::send of a standalone request puts the command index held
\* before the call into the frame's command_id and leaves the index at that
\* value plus one; on a fresh session consecutive standalone requests carry
\* the ids 0, 1, 2, ... in order.
C4_StandaloneIds ==
    /\ call = "send_and_receive" /\ g_sends = 1 =>
          /\ lastSent.command_id = g_idx0
          /\ lastSent.kind = req
    /\ call = "send_and_receive" /\ pc # "s_send" =>
          command_index = U32Add(g_idx0, 1)
    /\ g_standalone >= 1 /\ g_sends = 1 =>
          lastSent.command_id = U32Of(g_standalone - 1)

\* C4 witness: the second standalone request of a fresh session is out
C4_Witness == pc = "s_recv" /\ g_standalone = 2 /\ lastSent.command_id = U32Of(1)

\* C5: fs_write of N bytes sends exactly ceil(N/512) storage-write requests,
\* exactly one of zero length when N = 0; the chunks go out in input order,
\* each of at most 512 bytes, only the last may be shorter, and together they
\* are the input.
C5_Chunking ==
    /\ WroteChunk =>
          /\ lastSent.data.len <= CHUNK_SIZE
          /\ lastSent.size = lastSent.data.len
          /\ lastSent.data.off = CHUNK_SIZE * (g_writes - 1)
          /\ lastSent.data.off + lastSent.data.len = g_covered
          /\ g_covered <= data_len
          /\ g_writes <= ExpectedChunks(data_len)
          /\ (g_writes < ExpectedChunks(data_len) => lastSent.data.len = CHUNK_SIZE)
    /\ WriteOk =>
          /\ g_writes = ExpectedChunks(data_len)
          /\ g_covered = data_len
          /\ (data_len = 0 => g_writes = 1 /\ lastSent.data.len = 0)

\* C5 witness: a finished write of three chunks, the last one byte long
C5_Witness == WriteOk /\ g_writes = 3 /\ lastSent.data.len = 1

\* C6: fs_read returns the payloads of the frames received, concatenated in
\* arrival order, up to and including the first frame with has_next = false;
\* it receives nothing after that frame, and the length of the result is the
\* sum of the payload lengths.
C6_ReadConcat ==
    /\ pc = "r_drain" => buf = Flatten(g_rx) /\ (g_rx # <<>> => g_rxLast)
    /\ ReadOk =>
          /\ g_rx # <<>> /\ ~g_rxLast
          /\ ret.val = Flatten(g_rx)
          /\ Len(ret.val) = SumLen(g_rx)
          /\ g_recvSinceSend = Len(g_rx)

\* C6 witness: a read of three frames returning <<8, 9, 7>>
C6_Witness == ReadOk /\ Len(g_rx) = 3 /\ ret.val = <<8, 9, 7>>

\* C7: fs_read sends exactly one read request per call, and sends no frame
\* while it drains the continuation frames.
C7_OneReadRequest ==
    /\ call = "fs_read" /\ (pc = "r_drain" \/ (pc = "idle" /\ g_reads >= 1)) =>
          /\ g_reads = 1
          /\ lastSent.kind = "StorageReadRequest"
          /\ g_sends = (IF featReadMetadata THEN 2 ELSE 1)
    /\ ReadOk => g_reads = 1

\* C7 witness: the drain loop after two has_next = true frames
C7_Witness == call = "fs_read" /\ pc = "r_drain" /\ Len(g_rx) = 2 /\ g_reads = 1

\* C8: when the send of a chunk (or of a ping) or the receive of its
\* acknowledgement fails in fs_write, fs_write returns that error at once:
\* no later chunk, no second send of a frame, no closing frame.
C8_AbortOnFailure ==
    call = "fs_write" /\ g_fail # "" =>
        /\ pc = "idle"
        /\ ret = RetErr(g_fail)
        /\ g_sends = g_writes + g_pings
        /\ g_writes <= i + 1
        /\ (WroteChunk /\ g_writes < ExpectedChunks(data_len) => lastSent.has_next)

\* C8 witness: the acknowledgement of the second of three chunks fails
C8_Witness ==
    /\ call = "fs_write" /\ g_fail = "Rpc" /\ pc = "idle"
    /\ g_writes = 2 /\ ExpectedChunks(data_len) = 3

\* C9: while no call has failed, no frame is sent before the response to
\* the frame sent before it was received: at least one receive completes
\* between two sends, and exactly one between two sends of one fs_write.
C9_RequestResponse ==
    g_errFree /\ g_gap # -1 =>
        /\ g_gap >= 1
        /\ (call = "fs_write" /\ g_sends >= 2 => g_gap = 1)

\* C9 witness: a send that follows a read chain of three frames
C9_Witness == g_errFree /\ g_gap = 3 /\ g_sends = 1

\* C10: in fs_write a keepalive ping precedes chunk i for every i > 0 that
\* is a multiple of CHUNKS_PER_PING, so that never more than CHUNKS_PER_PING
\* chunks in a row go out without a ping.
C10_PingEveryPeriod ==
    /\ pc = "w_chunk" /\ i > 0 /\ i % CHUNKS_PER_PING = 0 =>
          lastSent.kind = "SystemPingRequest"
    /\ g_sincePing <= CHUNKS_PER_PING

\* C11: every keepalive ping sent during fs_write carries a command_id other
\* than the id of the write chain, and the response of the ping is received
\* (exactly one receive) before the next write chunk is sent.
C11_PingIdAndAnswer ==
    /\ call = "fs_write" /\ lastSent.kind = "SystemPingRequest" =>
          /\ lastSent.command_id # command_id
          /\ lastSent.command_id # g_idx0
    /\ pc = "w_chunk" /\ g_pings >= 1 /\ g_sincePing = 0 =>
          /\ lastSent.kind = "SystemPingRequest"
          /\ g_recvSinceSend = 1
    /\ WroteChunk /\ g_pings >= 1 /\ g_sincePing = 1 => g_gap = 1

\* C11 witness: the chunk after the second ping was sent
C11_Witness == WroteChunk /\ g_pings = 2 /\ g_sincePing = 1 /\ g_gap = 1

\* fs_write is running
WriteRunning ==
    call = "fs_write" /\ pc \in {"w_loop", "w_ping_recv", "w_chunk", "w_chunk_recv"}

\* C12: with a progress sink, fs_write emits (0, total) before any chunk is
\* sent and, after the acknowledgement of the k-th chunk, (sum of the lengths
\* of chunks 1..k, total); the counts never decrease, a successful write
\* emits (number of chunks + 1) reports and the last one is (total, total).
C12_ProgressReports ==
    /\ WriteRunning /\ tx.conn # "None" =>
          /\ tx.mono
          /\ g_writes = 0 => tx.n = 1 /\ tx.last = <<0, data_len>>
          /\ pc = "w_loop" => tx.n = g_writes + 1 /\ tx.last = <<g_covered, data_len>>
          /\ pc = "w_chunk_recv" =>
                tx.n = g_writes /\ tx.last = <<g_covered - chunk.len, data_len>>
    /\ WriteOk /\ tx.conn # "None" =>
          /\ tx.mono
          /\ tx.n = ExpectedChunks(data_len) + 1
          /\ tx.last = <<data_len, data_len>>

\* C12 witness: a successful write of three chunks with a sink
C12_Witness == WriteOk /\ tx.conn = "Connected" /\ tx.n = 4 /\ data_len = 2 * CHUNK_SIZE + 1

\* C13: when a progress report cannot be delivered because the receiver is
\* gone, fs_write returns the error at that point, having sent no chunk after
\* the one just acknowledged; no failed delivery is passed over.
C13_SinkFailure ==
    /\ tx.failed =>
          /\ call = "fs_write" /\ pc = "idle" /\ ret = RetErr("MpscSend")
          /\ g_writes = tx.n
    /\ WriteRunning /\ tx.conn # "None" => ~tx.failed /\ tx.n = i + 1

\* C13 witness: the receiver was dropped during the write and the report
\* after the second chunk failed
C13_Witness == tx.failed /\ g_writes = 2 /\ tx.n = 2 /\ ret = RetErr("MpscSend")

\* receive_raw has returned; all it could read was in the input queue when it
\* was called, and the port raised no I/O error
QuietReturn == rx_pc = "done" /\ g_recvs >= 1 /\ g_allQueued /\ ~g_fault

\* the messages whose encoding has one of the lengths of FrameLens
RoundTripMessages == { m \in AllMessages : m.len \in FrameLens }

C15_AtMostTwoReads == strategy = "two_stage" => g_readOps <= 2

\* the "no data read" error is an io::Error, as the error of read_exact is
ErrorVariant(r) == IF r = RetErr("NoData") THEN RetErr("Io") ELSE r

\* C16 (as stated): when the two-stage receive_raw returns, it has returned
\* what the byte-wise receive_raw returns for the same bytes, and it has left
\* the same bytes unread
C16_SameBehaviour ==
    [][(/\ strategy = "two_stage"
        /\ rx_pc # "done"
        /\ rx_pc' = "done"
        /\ g_allQueued
        /\ ~g_fault')
       => /\ ErrorVariant(rx_ret') \in ByteWiseOutcome(g_stream0).ret
          /\ queued' = ByteWiseOutcome(g_stream0).rest]_vars

\* C17: in the two-stage receive_raw a zero-byte read or a timeout ends the
\* first-stage loop and the call goes on to the length prefix; the call
\* fails with "no data read" exactly when the loop ended with nothing read;
\* another error of read or of bytes_to_read is returned at once
C17_LoopEnd ==
    strategy = "two_stage" /\ g_recvs >= 1 =>
        /\ g_loopEnd \in LoopEnds
        /\ g_loopEnd \in {"zero", "timeout"} =>
              /\ rx_pc \in {"t_decode", "t_rest", "done"}
              /\ rx_pc = "done" /\ Len(rx_buf) > 0 => rx_ret # RetErr("NoData")
        /\ rx_pc = "done" =>
              (rx_ret = RetErr("NoData") <=>
                  (g_loopEnd \in {"zero", "timeout"} /\ Len(rx_buf) = 0))
        /\ g_loopEnd = "cond" => Len(rx_buf) > 0
        /\ g_loopEnd = "error" =>
              /\ rx_pc = "done"
              /\ rx_ret \in {RetErr("Io"), RetErr("Serialport")}
              /\ g_fault

C17_Witness ==
    /\ strategy = "two_stage"
    /\ rx_pc = "done"
    /\ g_loopEnd = "timeout"
    /\ Len(rx_buf) = STACK_LIMIT(FALSE)
    /\ g_readOps = 3
    /\ rx_ret.status = "Ok"

\* new has read the prompt marker from the port
PromptRead == Find(g_read, PROMPT)

\* the errors of the two drains
PromptTimeout == RetErr("Timeout searching for '>: '")

NewlineTimeout == RetErr("Timeout searching for byte 0x0a")

\* C18 (as stated): when the device has emitted the prompt marker before the
\* deadline, after whatever banner and in whatever bursts, new does not fail
\* for want of the marker; the session it returns is in RPC mode with
\* command index 0
C18_PromptFound ==
    /\ h_ret = PromptTimeout => ~PromptRead
    /\ h_pc = "h_done" /\ nOps = 0 => h_session = RpcSession /\ command_index = U32Of(0)

\* C19 (as stated): the mode-switch command is written only after the prompt
\* marker has appeared on the channel; new fails with the timeout that names
\* the marker or the newline byte when that one did not come; a failed new
\* gives no session
C19_NoPromptNoCommand ==
    /\ h_written # << >> => PromptRead
    /\ h_ret = PromptTimeout => h_written = << >>
    /\ h_ret = NewlineTimeout => h_written = START_RPC_SESSION
    /\ h_pc = "h_failed" => h_session = NoSession

\* s is the beginning of t
IsPrefix(s, t) == Len(s) <= Len(t) /\ SubSeq(t, 1, Len(s)) = s

\* C20: new does its steps in the order of HandshakeSteps, each after the one
\* before succeeded; a failed new did not finish them and returns no session;
\* the session is there, with command index 0, when all are done, and no
\* frame is sent on it before
C20_StepsInOrder ==
    /\ IsPrefix(g_steps, HandshakeSteps)
    /\ h_written # << >> <=> Len(g_steps) >= 2
    /\ h_pc = "h_failed" => g_steps # HandshakeSteps /\ h_ret.status = "Err"
    /\ h_session.open <=> g_steps = HandshakeSteps
    /\ h_session.open /\ nOps = 0 => command_index = U32Of(0)
    /\ (g_sent \/ nOps > 0 \/ pc # "idle") => h_session.open

C20_Witness ==
    /\ h_pc = "h_done"
    /\ g_steps = HandshakeSteps
    /\ g_sent
    /\ pc = "s_recv"
    /\ lastSent.command_id = U32Of(0)

\* the messages whose command status is no member of CommandStatus
UnrecognizedMessages == { m \in AllMessages : m.status = "Unrecognized" }

\* C21 (as stated): a received frame whose status value is outside the
\* enumerated set makes receive_raw return an error, never a success
C21_UnknownStatusIsError ==
    QuietReturn =>
        \A m \in UnrecognizedMessages :
            g_stream0 = encode_length_delimited(m) => rx_ret.status = "Err"

\* into_result has returned
IntoResultDone == f_fn = "into_result" /\ f_pc = "done"

\* C22: into_result returns Ok(value), the value unchanged, when the status
\* is Ok and only then; every other status gives an error
C22_OkIffStatusOk ==
    IntoResultDone =>
        /\ f_result.status \in {"Ok", "Err"}
        /\ f_result.status = "Ok" <=> f_status = StatusOk
        /\ f_result.status = "Ok" => f_result = RetOk(f_value)

C22_Witness ==
    /\ IntoResultDone
    /\ f_status = StatusOk
    /\ f_value = << 1, 2 >>
    /\ f_result = RetOk(<< 1, 2 >>)

\* the (category, reason) pairs of the error enums of rpc::error
ClosedErrorSet ==
    { RpcError("CommandError", r) : r \in {"Unknown", "Decode", "NotImplemented", "Busy",
                                            "ContinuousCommandInterrupted",
                                            "InvalidParameters"} } \cup
    { RpcError("StorageError", r) : r \in {"NotReady", "AlreadyExists", "NotFound",
                                            "InvalidParameter", "PermissionDenied",
                                            "InvalidName", "Internal", "NotImplemented",
                                            "AlreadyOpen", "DirectoryNotEmpty"} } \cup
    { RpcError("ApplicationError", r) : r \in {"CannotStart", "SystemLocked",
                                                "RpcUnavailable", "CommandExecution"} } \cup
    { RpcError("VirtualDisplayError", r) : r \in {"AlreadyStarted", "NotStarted"} } \cup
    { RpcError("GPIOError", r) : r \in {"IncorrectMode", "UnknownMode"} }

\* the category of a family of status codes
FamilyCategory(family) ==
    CASE family = "" -> "CommandError"
      [] family = "Storage" -> "StorageError"
      [] family = "App" -> "ApplicationError"
      [] family = "VirtualDisplay" -> "VirtualDisplayError"
      [] family = "Gpio" -> "GPIOError"

\* C23: into_result gives each status other than Ok one (category, reason)
\* pair of the closed set, in the category of the family of the status, and
\* gives no other status the same pair
C23_OneToOne ==
    IntoResultDone /\ f_status # StatusOk =>
        /\ f_result.status = "Err"
        /\ f_result.err \in ClosedErrorSet
        /\ f_result.err[1] = FamilyCategory(f_status[1])
        /\ \A other \in CommandStatuses \ {f_status} :
              into_result(other, f_value) # f_result

C23_Witness ==
    /\ IntoResultDone
    /\ f_status = Status("Storage", "NotImplemented")
    /\ f_result = RetErr(RpcError("StorageError", "NotImplemented"))

\* the least n in 1..10 with v < 2^(7n); every usize is below 2^70
LeastGroups(v) ==
    CHOOSE n \in 1..VARINT_MAX :
        /\ (7 * n >= 64 \/ Lt(v, Pow2(7 * n)))
        /\ \A m \in 1..(n - 1) : ~Lt(v, Pow2(7 * m))

\* C30: varint_length(v) returns the least n >= 1 with v < 2^(7n); the loop
\* ends: len never passes 10 and every turn makes value smaller
C30_VarintLength ==
    /\ [](f_fn = "varint_length" =>
            /\ v_len <= VARINT_MAX
            /\ f_pc = "done" => v_len = LeastGroups(v_in))
    /\ [][f_pc = "loop" /\ f_pc' = "loop" => Lt(v_value', v_value)]_vars

C30_Witness ==
    /\ f_fn = "varint_length"
    /\ f_pc = "done"
    /\ v_in = Pow2(7)
    /\ v_len = 2

C25_RoundTrip ==
    d_mode = "store" =>
        /\ WriteOk => d_file = ExampleData(data_len) /\ g_data = data_len
        /\ ReadOk /\ g_data >= 0 => ret.val = ExampleData(g_data)
        /\ call = "fs_write" /\ data_len = 10 * CHUNK_SIZE =>
              /\ g_sends = g_writes
              /\ g_writes > 0 =>
                    /\ lastSent.kind = "StorageWriteRequest"
                    /\ lastSent.command_id = g_idx0
                    /\ lastSent.data = [off |-> (g_writes - 1) * CHUNK_SIZE, len |-> CHUNK_SIZE]
                    /\ lastSent.has_next = (g_writes < 10)
              /\ WriteOk => g_writes = 10

\* C25 witness: the 5120 bytes written come back in ten frames
C25_Witness ==
    /\ d_mode = "store" /\ ReadOk /\ g_data = 10 * CHUNK_SIZE
    /\ Len(g_rx) = 10 /\ Len(ret.val) = 10 * CHUNK_SIZE
    /\ ret.val[513] = 1 /\ ret.val[5120] = 9

\* C26: no addition on the command index aborts: increment_command_index
\* and the keepalive id command_id + 1 wrap modulo 2^32.
C26_WrapsNeverAborts == ~(ret.status = "Panic" /\ ret.err = "overflow")

\* C27: every frame send_raw writes carries the command index the
\* transport holds when send_raw runs as its command_id.
C27_IdOverwritten ==
    [][g_sends' = g_sends + 1 => lastSent'.command_id = command_index']_vars

\* C28: SerialCliTransport::new followed by into_rpc goes through the steps
\* of SerialRpcTransport::new in the same order, writes the same bytes and
\* ends with the same session (command index 0) or with an error and no
\* session; from_port reads nothing and writes nothing, and gives that
\* session as well.
C28_SameHandshake ==
    /\ h_path \in {"new", "cli"} =>
          /\ IsPrefix(g_steps, HandshakeSteps)
          /\ IsPrefix(h_written, START_RPC_SESSION)
          /\ g_steps = << >> => h_written = << >>
          /\ Len(g_steps) >= 2 => h_written = START_RPC_SESSION
          /\ h_pc = "h_failed" => g_steps # HandshakeSteps /\ h_ret.status = "Err"
    /\ h_path = "from_port" =>
          /\ h_pc \in {"h_session", "h_done"}
          /\ g_steps = IF h_pc = "h_done" THEN << "index" >> ELSE << >>
          /\ g_read = << >>
          /\ h_written = << >>
          /\ h_line \in TextStreams
    /\ h_session.open <=> h_pc = "h_done"
    /\ h_pc = "h_done" =>
          /\ h_session = RpcSession
          /\ command_index = U32Of(0)
          /\ h_ret = RetOk(<< >>)
          /\ h_path # "from_port" => g_steps = HandshakeSteps

\* C28 witness: into_rpc has returned the session
C28_Witness ==
    /\ h_path = "cli" /\ h_pc = "h_done" /\ h_session = RpcSession
    /\ g_steps = HandshakeSteps /\ h_written = START_RPC_SESSION

\* what the device answered the mkdir request of the call with
Answered == call = "fs_create_dir" /\ pc = "idle" /\ g_rx # << >>

\* C29: fs_create_dir returns Ok(false) when send_and_receive returned Ok
\* (the device answered with status Ok), Ok(true) when the device answered
\* with the storage status Exist (the error AlreadyExists), and the error
\* itself for every other error of the path, the send or the receive.
C29_CreateDirResult ==
    /\ Answered /\ ret.status # "Panic" =>
          LET status == g_rx[1][1]
          IN  /\ status = StatusOk => ret = RetOk(<< FALSE >>)
              /\ status = Status("Storage", "Exist") => ret = RetOk(<< TRUE >>)
              /\ status \notin {StatusOk, Status("Storage", "Exist")} =>
                    ret = RetErr(StatusError(status))
    /\ Answered /\ ret.status = "Panic" =>
          \/ g_rx[1][1] \notin CommandStatuses
          \/ g_rx[1][1] = StatusOk /\ g_rx[1][2] = "StorageMkdirRequest"
    /\ call = "fs_create_dir" /\ pc = "idle" /\ g_rx = << >> =>
          /\ ret.status = "Err"
          /\ ret.err[1] = IF g_sends = 0 THEN "Io" ELSE g_fail

\* C29 witness: the directory was there already
C29_Witness ==
    /\ Answered /\ g_rx[1][1] = Status("Storage", "Exist")
    /\ ret = RetOk(<< TRUE >>) /\ g_reads = 0 /\ g_sends = 1

ReadDirOk == call = "fs_read_dir" /\ pc = "idle" /\ ret.status = "Ok"

\* C31: fs_read_dir sends one list request and nothing else; it returns the
\* entries of the frames received, in arrival order, up to and including the
\* first frame with has_next = false, and receives nothing after that frame.
C31_ReadDirConcat ==
    /\ call = "fs_read_dir" => g_sends <= 1 /\ g_reads = g_sends
    /\ call = "fs_read_dir" /\ pc = "d_drain" =>
          /\ g_sends = 1 /\ lastSent.kind = "StorageListRequest"
          /\ buf = Flatten(g_rx)
          /\ g_rx # << >> => g_rxLast
    /\ ReadDirOk =>
          /\ g_sends = 1 /\ lastSent.kind = "StorageListRequest"
          /\ g_rx # << >> /\ ~g_rxLast
          /\ ret.val = Flatten(g_rx)
          /\ g_recvSinceSend = Len(g_rx)

\* C31 witness: a listing of three frames
C31_Witness == ReadDirOk /\ Len(g_rx) = 3 /\ ret.val = << 102, 103, 101 >>

\* C32: with a declared size, fs_read returns Ok only when the buffer it
\* assembled has that length.
C32_SizeChecked == ReadOk /\ read_size >= 0 => Len(ret.val) = read_size


\* the first frame of the bytes: the length prefix and the payload it
\* declares, when all of it is there
FirstFrame(stream) ==
    LET d == decode_length_delimiter(Take(stream, Min(Len(stream), VARINT_MAX)))
    IN  [complete |-> d.ok /\ Len(stream) >= d.used + d.value,
         payload |-> SubSeq(stream, d.used + 1, d.used + d.value),
         rest |-> Drop(stream, d.used + d.value)]

\* C33 (as stated): a receive_raw that is called with a whole frame in the
\* input queue takes exactly that frame off the queue, every byte after it
\* stays unread, and what it returns is decoded from the payload of that
\* frame alone
C33_OneFramePerReceive ==
    [][(/\ rx_pc # "done"
        /\ rx_pc' = "done"
        /\ g_allQueued
        /\ ~g_fault'
        /\ FirstFrame(g_stream0).complete)
       => /\ queued' = FirstFrame(g_stream0).rest
          /\ rx_ret' \in DecodeResults(FirstFrame(g_stream0).payload)]_vars

\* C34 (as stated): a response that send_and_receive returns carries the
\* command_id of the request it sent
C34_AnswerHasRequestId ==
    call = "send_and_receive" /\ ret.status = "Ok" /\ g_ans # << >> =>
        g_ans[1] = lastSent.command_id

\* C35 (as stated): a command_id that is in a frame of one call is in no
\* frame of another call of the session
C35_IdsNeverReused ==
    \A a \in g_ids : \A b \in g_ids : a.id = b.id => a.op = b.op

\* C36: when fs_write has returned an error, the command index is what it
\* was when the call started
C36_IndexKeptOnError ==
    call = "fs_write" /\ ret.status = "Err" => command_index = g_idx0

\* fs_write fails on the acknowledgement of its third chunk, after a first
\* call has moved the index
C36_Witness ==
    /\ call = "fs_write"
    /\ ret = RetErr("Rpc")
    /\ g_writes = 3
    /\ g_recvSinceSend = 0
    /\ g_idx0 # U32Of(0)

\* the positions at which a call runs Transport::send
SendPositions == {"s_send", "r_meta_send", "r_send", "d_send", "m_send"}

C38_MatchInBytesRead ==
    [][(h_pc = "h_prompt" /\ h_pc' = "h_write") => Find(g_read', PROMPT)]_vars

\* fs_read or fs_read_dir is running
ReadRunning == call \in {"fs_read", "fs_read_dir"} /\ pc # "idle"

\* C39: a running fs_read or fs_read_dir comes to an end when every receive
\* ends and the device ends its chain, and a receive that fails in the loop
\* makes the call return that error in the same step
C39_ReadTerminates ==
    /\ ReadRunning ~> (pc = "idle" /\ ret # NoRet)
    /\ [][(/\ pc \in {"r_drain", "d_drain"}
           /\ g_recvSinceSend' = g_recvSinceSend)
          => pc' = "idle" /\ ret' = RetErr(g_fail')]_vars

\* fs_read_dir has returned the error of its third receive, after two frames
\* with has_next = true
C39_Witness ==
    /\ call = "fs_read_dir"
    /\ pc = "idle"
    /\ ret = RetErr("ProtoDecode")
    /\ Len(g_rx) = 2
    /\ g_rxLast

\* length prefixes that are not the shortest encoding of their value, and
\* some that are
OddPrefixes ==
    { <<0>>, <<127>>, <<128, 0>>, <<128, 1>>, <<255, 0>>, <<128, 128, 0>>,
      <<255, 255, 0>>, <<128, 128, 128, 128, 0>> }

\* the first stage of the two-stage receive_raw is running or just over
FirstStage == rx_pc \in {"t_read", "t_avail", "t_decode"}

\* C40: in the two-stage receive_raw the bytes read in the first stage are
\* at most STACK_LIMIT, the first-stage loop has issued at most one read
\* more than the bytes it has read (so at most STACK_LIMIT + 1), no slice
\* is taken out of bounds, and the prefix length of a decoded length never
\* exceeds the bytes the decoder used
C40_IndexesInBounds ==
    /\ strategy = "two_stage" =>
          /\ Len(rx_buf) <= STACK_LIMIT(featLargeStack)
          /\ FirstStage =>
                /\ g_readOps <= Len(rx_buf) + 1
                /\ g_readOps <= STACK_LIMIT(featLargeStack) + 1
          /\ rx_ret # Panicked("index")
          /\ rx_pc = "t_rest" =>
                LET d == decode_length_delimiter(rx_buf)
                    varint_length == length_delimiter_len(d.value)
                IN  /\ d.ok
                    /\ varint_length <= Len(rx_buf)
                    /\ d.value > Len(rx_buf) - varint_length
    /\ \A bytes \in OddPrefixes :
          LET d == decode_length_delimiter(bytes)
          IN  d.ok => length_delimiter_len(d.value) <= d.used

\* a receive that filled the whole of buf in two reads, tried a third read
\* on the empty rest of it, and went on to the second stage
C40_Witness ==
    /\ strategy = "two_stage"
    /\ rx_pc = "t_rest"
    /\ Len(rx_buf) = STACK_LIMIT(featLargeStack)
    /\ g_loopEnd \in {"zero", "timeout"}
    /\ g_readOps = 3

=============================================================================
